---- MODULE Spec2Model ----
(***************************************************************************)
(* Python-PiShock: the HTTP client (pishock/zap/httpapi.py) and the serial *)
(* client (pishock/zap/serialapi.py) as a state machine.  A client call is *)
(* a step of the machine; an HTTP call that passes validation leaves its   *)
(* request on the wire and blocks until the server's response arrives,     *)
(* which is a second step.                                                 *)
(***************************************************************************)
EXTENDS Integers, Sequences, FiniteSets, TLC

VARIABLES
    pc,         \* "idle", or "awaiting" while a call blocks in requests.post
    call,       \* the client call in progress, or the last one made
    outcome,    \* how the last call ended: a return value or an exception
    wire,       \* the HTTP request in flight: <<>> or <<request>>
    response,   \* the response the last call received: <<>> or <<response>>
    written,    \* the lines the last call wrote to the serial port
    _cached_info,   \* HTTPShocker._cached_info: <<>> for None, or <<info>>
    next_read,  \* the lines the device has sent that no call has read yet
    lines_read, \* the lines the last reading call got from dev.readline()
    settings,   \* the arguments of the random command: the RandomShocker's fields
    run,        \* RandomShocker.run(): its position, its locals and the clock
    config_json \* the file config.json: <<>> while missing, else <<its data>>

vars == <<pc, call, outcome, wire, response, written, _cached_info, next_read,
          lines_read, settings, run, config_json>>

\* the state of the HTTPShocker handle that calls other than pause leave alone
handle == <<_cached_info>>

\* the input side of the serial port, which only reading calls touch
port_input == <<next_read, lines_read>>

\* the random command and its session
session == <<settings, run>>

\* what the command line tool keeps on disk
disk == <<config_json>>

(***************************************************************************)
(* Durations.  Python passes int or float seconds.  A duration is kept as  *)
(* sign, whole seconds and a fraction in units of 1/Scale second, so that  *)
(* values up to 2**32 milliseconds need no wide arithmetic.  The decimal   *)
(* inputs used below are ones for which Python's float product d * 1000    *)
(* truncates to the same integer as the exact product.                     *)
(***************************************************************************)
Scale == 10 * 1000

IntDur(n) ==
    [is_float |-> FALSE, neg |-> n < 0, secs |-> IF n < 0 THEN -n ELSE n, frac |-> 0]

FloatDur(neg, secs, frac) ==
    [is_float |-> TRUE, neg |-> neg, secs |-> secs, frac |-> frac]

\* float.is_integer(), and True for every int
is_integer(d) == d.frac = 0

Sign(d) == IF d.secs = 0 /\ d.frac = 0 THEN 0 ELSE IF d.neg THEN -1 ELSE 1

MagLt(d, e) == d.secs < e.secs \/ (d.secs = e.secs /\ d.frac < e.frac)

\* d < e and d <= e on numbers (int and float compare by value)
Lt(d, e) ==
    CASE Sign(d) < Sign(e) -> TRUE
      [] Sign(d) > Sign(e) -> FALSE
      [] Sign(d) = 1 -> MagLt(d, e)
      [] Sign(d) = -1 -> MagLt(e, d)
      [] OTHER -> FALSE

Le(d, e) == ~Lt(e, d)

\* int(d): truncation toward zero
int(d) == IF d.neg THEN -d.secs ELSE d.secs

\* int(d * 1000) as quotient and remainder by 1000 of its magnitude
\* (truncation toward zero), with the sign of a non-zero result
int_ms(d) ==
    LET r == (d.frac * 1000) \div Scale
    IN  [neg |-> d.neg /\ (d.secs > 0 \/ r > 0), k |-> d.secs, r |-> r]

(***************************************************************************)
(* Outcomes of a call: a return value or a raised exception.               *)
(***************************************************************************)
NoOutcome == [kind |-> "none", exc |-> "", detail |-> "", status |-> 0, value |-> <<>>]

Return(v) == [kind |-> "return", exc |-> "", detail |-> "", status |-> 0, value |-> v]

Raise(exc, detail) ==
    [kind |-> "raise", exc |-> exc, detail |-> detail, status |-> 0, value |-> <<>>]

\* HTTPError keeps the response's status code and body
HTTPError(status, body) ==
    [kind |-> "raise", exc |-> "HTTPError", detail |-> body, status |-> status,
     value |-> <<>>]

Operation == [SHOCK |-> 0, VIBRATE |-> 1, BEEP |-> 2]

SerialOperation ==
    [SHOCK |-> "shock", VIBRATE |-> "vibrate", BEEP |-> "beep", END |-> "end"]

\* the texts of the typed API errors (the TEXT of each APIError subclass)
ShareCodeAlreadyUsedError == "This share code has already been used by somebody else."
ShareCodeNotFoundError == "This code doesn't exist."
NotAuthorizedError == "Not Authorized."
ShockerPausedError == "Shocker is Paused or does not exist. Unpause to send command."
DeviceNotConnectedError == "Device currently not connected."
DeviceInUseError == "Device in Use."
ShockNotAllowedError == "Shock not allowed."
VibrateNotAllowedError == "Vibrate not allowed."
BeepNotAllowedError == "Beep not allowed."

\* HTTPShocker._ERROR_MESSAGES: text -> exception class
_ERROR_MESSAGES ==
    (NotAuthorizedError :> "NotAuthorizedError")
    @@ (ShareCodeNotFoundError :> "ShareCodeNotFoundError")
    @@ (ShareCodeAlreadyUsedError :> "ShareCodeAlreadyUsedError")
    @@ (ShockerPausedError :> "ShockerPausedError")
    @@ (DeviceNotConnectedError :> "DeviceNotConnectedError")
    @@ (DeviceInUseError :> "DeviceInUseError")
    @@ (ShockNotAllowedError :> "ShockNotAllowedError")
    @@ (VibrateNotAllowedError :> "VibrateNotAllowedError")
    @@ (BeepNotAllowedError :> "BeepNotAllowedError")

_SUCCESS_MESSAGES == {"Operation Succeeded.", "Operation Attempted."}

_SUCCESS_MESSAGE_PAUSE == "Operation Successful, Probably."

\* the client's configuration (the fixtures of tests/conftest.py)
USERNAME == "PISHOCK-USERNAME"
API_KEY == "PISHOCK-APIKEY"
SHARECODE == "62169420AAA"
NAME == "Python-PiShock"

(***************************************************************************)
(* HTTPShocker: validation and the apioperate request.                     *)
(***************************************************************************)
\* as _parse_duration, with the float window ending at 1.5
_parse_duration_upto_1_5(duration) ==
    IF duration.is_float /\ ~is_integer(duration)
    THEN IF ~(Le(FloatDur(FALSE, 0, Scale \div 10), duration)
              /\ Lt(duration, FloatDur(FALSE, 1, (5 * Scale) \div 10)))
         THEN Raise("ValueError", "float duration needs to be between 0.1 and 1.5")
         ELSE Return(<<int_ms(duration).k * 1000 + int_ms(duration).r>>)
    ELSE IF ~(Le(IntDur(0), duration) /\ Le(duration, IntDur(15)))
         THEN Raise("ValueError", "duration needs to be between 0 and 15")
         ELSE Return(<<int(duration)>>)

\* as _parse_duration, with every float taken as milliseconds
_parse_duration_float_ms(duration) ==
    IF duration.is_float
    THEN IF ~(Le(FloatDur(FALSE, 0, Scale \div 10), duration)
              /\ Lt(duration, FloatDur(FALSE, 1, (6 * Scale) \div 10)))
         THEN Raise("ValueError", "float duration needs to be between 0.1 and 1.5")
         ELSE Return(<<int_ms(duration).k * 1000 + int_ms(duration).r>>)
    ELSE IF ~(Le(IntDur(0), duration) /\ Le(duration, IntDur(15)))
         THEN Raise("ValueError", "duration needs to be between 0 and 15")
         ELSE Return(<<int(duration)>>)

_parse_duration(duration) ==
    IF duration.is_float /\ ~is_integer(duration)
    THEN IF ~(Le(FloatDur(FALSE, 0, Scale \div 10), duration)
              /\ Lt(duration, FloatDur(FALSE, 1, (6 * Scale) \div 10)))
         THEN Raise("ValueError", "float duration needs to be between 0.1 and 1.5")
         ELSE Return(<<int_ms(duration).k * 1000 + int_ms(duration).r>>)
    ELSE IF ~(Le(IntDur(0), duration) /\ Le(duration, IntDur(15)))
         THEN Raise("ValueError", "duration needs to be between 0 and 15")
         ELSE Return(<<int(duration)>>)

\* PiShockAPI.request up to requests.post: the credentials are merged into
\* the parameters and the request leaves for the endpoint
request(endpoint, params) ==
    [endpoint |-> endpoint,
     params |-> params @@ ("Username" :> USERNAME) @@ ("Apikey" :> API_KEY)]

\* HTTPShocker._call up to the request: what it raises, or the request it
\* sends.  intensity is <<>> for None and <<i>> for a number.
_call(operation, duration, intensity) ==
    IF intensity # <<>> /\ ~(0 <= intensity[1] /\ intensity[1] <= 100)
    THEN [raised |-> TRUE,
          outcome |-> Raise("ValueError", "intensity needs to be between 0 and 100"),
          requests |-> <<>>]
    ELSE IF (intensity = <<>>) # (operation = Operation.BEEP)
    THEN [raised |-> TRUE, outcome |-> Raise("AssertionError", ""), requests |-> <<>>]
    ELSE LET d == _parse_duration(duration)
             base == ("Name" :> NAME) @@ ("Code" :> SHARECODE)
                     @@ ("Duration" :> d.value[1]) @@ ("Op" :> operation)
             params == IF intensity # <<>>
                       THEN ("Intensity" :> intensity[1]) @@ base
                       ELSE base
         IN  IF d.kind = "raise"
             THEN [raised |-> TRUE, outcome |-> d, requests |-> <<>>]
             ELSE [raised |-> FALSE, outcome |-> NoOutcome,
                   requests |-> <<request("apioperate", params)>>]

HTTPShocker_shock(duration, intensity) == _call(Operation.SHOCK, duration, <<intensity>>)

HTTPShocker_vibrate(duration, intensity) ==
    _call(Operation.VIBRATE, duration, <<intensity>>)

HTTPShocker_beep(duration) == _call(Operation.BEEP, duration, <<>>)

(***************************************************************************)
(* Responses.  requests.Response.raise_for_status() raises for the client  *)
(* and server error classes, 400..599, and for no other status.            *)
(***************************************************************************)
raise_for_status(status) == 400 <= status /\ status < 600

\* PiShockAPI.request after requests.post: HTTPError(status, body) or the
\* response itself
request_result(resp) ==
    IF raise_for_status(resp.status)
    THEN HTTPError(resp.status, resp.text)
    ELSE Return(<<resp>>)

\* as translate_http_errors, without the translation of 404
translate_http_errors_403_only(r) ==
    IF r.kind = "raise" /\ r.exc = "HTTPError"
    THEN IF r.status = 403
         THEN Raise("NotAuthorizedError", NotAuthorizedError)
         ELSE r
    ELSE r

\* PiShockAPI.translate_http_errors around a request
translate_http_errors(r) ==
    IF r.kind = "raise" /\ r.exc = "HTTPError"
    THEN IF r.status = 404
         THEN Raise("ShareCodeNotFoundError", ShareCodeNotFoundError)
         ELSE IF r.status = 403
         THEN Raise("NotAuthorizedError", NotAuthorizedError)
         ELSE r
    ELSE r

\* as _call_outcome, with an unrecognised body taken for success
_call_outcome_lenient(resp) ==
    LET r == request_result(resp)
    IN  IF r.kind = "raise" THEN r
        ELSE IF resp.text \in DOMAIN _ERROR_MESSAGES
        THEN Raise(_ERROR_MESSAGES[resp.text], resp.text)
        ELSE Return(<<>>)

\* HTTPShocker._call after the request: the outcome of shock, vibrate, beep
_call_outcome(resp) ==
    LET r == request_result(resp)
    IN  IF r.kind = "raise" THEN r
        ELSE IF resp.text \in DOMAIN _ERROR_MESSAGES
        THEN Raise(_ERROR_MESSAGES[resp.text], resp.text)
        ELSE IF resp.text \notin _SUCCESS_MESSAGES
        THEN Raise("UnknownError", resp.text)
        ELSE Return(<<>>)

(***************************************************************************)
(* JSON bodies.  response.json() on the body texts the server model sends: *)
(* a parsed value, or JSONDecodeError for a text that is not JSON.         *)
(***************************************************************************)
JObject(fields) == [type |-> "object", obj |-> fields, arr |-> <<>>]
JArray(items) == [type |-> "array", obj |-> <<>>, arr |-> items]
JNull == [type |-> "null", obj |-> <<>>, arr |-> <<>>]

INFO_BODY ==
    "{\"name\": \"test shocker\", \"clientId\": 1000, \"id\": 1001, \"paused\": false, \"online\": true, \"maxIntensity\": 100, \"maxDuration\": 15}"
INFO_BODY_OTHER ==
    "{\"name\": \"test shocker 2\", \"clientId\": 1000, \"id\": 1002, \"paused\": true, \"online\": true, \"maxIntensity\": 100, \"maxDuration\": 15}"
INFO_BODY_BASIC ==
    "{\"name\": \"test shocker\", \"clientId\": 1000, \"id\": 1001, \"paused\": false}"
SHOCKERS_BODY ==
    "[{\"name\": \"test shocker\", \"id\": 1001, \"paused\": false}, {\"name\": \"test shocker 2\", \"id\": 1002, \"paused\": true}]"
SHOCKERS_BODY_NO_ID == "[{\"name\": \"test shocker\", \"paused\": false}]"

Shocker1 == ("name" :> "test shocker") @@ ("id" :> 1001) @@ ("paused" :> FALSE)
Shocker2 == ("name" :> "test shocker 2") @@ ("id" :> 1002) @@ ("paused" :> TRUE)

JsonTexts ==
    (INFO_BODY :> JObject(Shocker1 @@ ("clientId" :> 1000) @@ ("online" :> TRUE)
                          @@ ("maxIntensity" :> 100) @@ ("maxDuration" :> 15)))
    @@ (INFO_BODY_OTHER :> JObject(Shocker2 @@ ("clientId" :> 1000) @@ ("online" :> TRUE)
                                   @@ ("maxIntensity" :> 100) @@ ("maxDuration" :> 15)))
    @@ (INFO_BODY_BASIC :> JObject(Shocker1 @@ ("clientId" :> 1000)))
    @@ ("{}" :> JObject(<<>>))
    @@ (SHOCKERS_BODY :> JArray(<<JObject(Shocker1), JObject(Shocker2)>>))
    @@ (SHOCKERS_BODY_NO_ID
          :> JArray(<<JObject(("name" :> "test shocker") @@ ("paused" :> FALSE))>>))
    @@ ("[]" :> JArray(<<>>))
    @@ ("null" :> JNull)

json(text) ==
    IF text \in DOMAIN JsonTexts
    THEN Return(<<JsonTexts[text]>>)
    ELSE Raise("JSONDecodeError", text)

\* data[key] in Python: KeyError for a dict without the key, TypeError for a
\* value that is no dict (a list or None indexed by a string)
getitem(data, key) ==
    IF data.type # "object" THEN Raise("TypeError", "")
    ELSE IF key \notin DOMAIN data.obj THEN Raise("KeyError", key)
    ELSE Return(<<data.obj[key]>>)

\* the first exception among the lookups of keys, in order, or NoOutcome
RECURSIVE first_raise(_, _)
first_raise(data, keys) ==
    IF keys = <<>> THEN NoOutcome
    ELSE IF getitem(data, Head(keys)).kind = "raise" THEN getitem(data, Head(keys))
    ELSE first_raise(data, Tail(keys))

\* DetailedShockerInfo.from_info_api_dict
from_info_api_dict(data) ==
    LET e == first_raise(data,
                 <<"name", "clientId", "id", "paused", "maxIntensity", "maxDuration">>)
    IN  IF e.kind = "raise" THEN e
        ELSE Return(<<[name |-> data.obj["name"],
                       client_id |-> data.obj["clientId"],
                       shocker_id |-> data.obj["id"],
                       is_paused |-> data.obj["paused"],
                       max_intensity |-> data.obj["maxIntensity"],
                       max_duration |-> data.obj["maxDuration"]]>>)

\* BasicShockerInfo.from_get_shockers_api_dict
from_get_shockers_api_dict(data, client_id) ==
    LET e == first_raise(data, <<"name", "id", "paused">>)
    IN  IF e.kind = "raise" THEN e
        ELSE Return(<<[name |-> data.obj["name"],
                       client_id |-> client_id,
                       shocker_id |-> data.obj["id"],
                       is_paused |-> data.obj["paused"]]>>)

\* HTTPShocker.info after the request
info_outcome(resp) ==
    LET r == translate_http_errors(request_result(resp))
        data == json(resp.text)
    IN  IF r.kind = "raise" THEN r
        ELSE IF data.kind = "raise" THEN Raise("UnknownError", resp.text)
        ELSE from_info_api_dict(data.value[1])

\* the list comprehension of get_shockers over the items of a JSON array:
\* the infos built so far, or the first exception
RECURSIVE shocker_infos(_, _, _)
shocker_infos(items, client_id, acc) ==
    IF items = <<>> THEN Return(<<acc>>)
    ELSE LET i == from_get_shockers_api_dict(Head(items), client_id)
         IN  IF i.kind = "raise" THEN i
             ELSE shocker_infos(Tail(items), client_id, Append(acc, i.value[1]))

\* PiShockAPI.get_shockers after the request.  Iterating a dict yields its
\* keys, which are strings and cannot be indexed by "name"; None cannot be
\* iterated.
get_shockers_outcome(resp, client_id) ==
    LET r == translate_http_errors(request_result(resp))
        data == json(resp.text)
    IN  IF r.kind = "raise" THEN r
        ELSE IF data.kind = "raise" THEN Raise("UnknownError", resp.text)
        ELSE IF data.value[1].type = "array"
        THEN shocker_infos(data.value[1].arr, client_id, <<>>)
        ELSE IF data.value[1].type = "object" /\ DOMAIN data.value[1].obj = {}
        THEN Return(<< <<>> >>)
        ELSE Raise("TypeError", "")

\* as verify_credentials_outcome, with every HTTPError taken for bad credentials
verify_credentials_outcome_any_error(resp) ==
    LET r == request_result(resp)
    IN  IF r.kind = "raise"
        THEN Return(<<FALSE>>)
        ELSE Return(<<TRUE>>)

\* PiShockAPI.verify_credentials after the request
verify_credentials_outcome(resp) ==
    LET r == request_result(resp)
    IN  IF r.kind = "raise"
        THEN IF r.status = 403 THEN Return(<<FALSE>>) ELSE r
        ELSE Return(<<TRUE>>)

(***************************************************************************)
(* SerialAPI: command lines and operate.                                   *)
(***************************************************************************)
\* Python values passed as a command's payload: their type and content
PyNone == [type |-> "NoneType", value |-> <<>>]
PyDict(items) == [type |-> "dict", value |-> items]
PyStr(s) == [type |-> "str", value |-> s]
PyInt(n) == [type |-> "int", value |-> n]
PyBool(b) == [type |-> "bool", value |-> b]
PyList(items) == [type |-> "list", value |-> items]

\* as truthy, for a test "if value is not None"
truthy_not_None(value) == value.type # "NoneType"

\* bool(value): None, False, 0 and the empty str, dict and list are falsy
truthy(value) ==
    CASE value.type = "NoneType" -> FALSE
      [] value.type = "dict" -> DOMAIN value.value # {}
      [] value.type = "str" -> value.value # ""
      [] value.type = "int" -> value.value # 0
      [] value.type = "bool" -> value.value
      [] value.type = "list" -> value.value # <<>>

\* SerialAPI._build_cmd: the JSON document of one command and its newline
_build_cmd(cmd, value) ==
    LET data == IF truthy(value)
                THEN ("cmd" :> cmd) @@ ("value" :> value.value)
                ELSE ("cmd" :> cmd)
    IN  [doc |-> data, end |-> "\n"]

\* SerialAPI._send_cmd: the lines written to the port
_send_cmd(cmd, value) == <<_build_cmd(cmd, value)>>

\* 0 <= duration_ms < 2**32, where 2**32 = 4294967 * 1000 + 296
duration_ms_in_range(ms) ==
    /\ ~ms.neg
    /\ (ms.k < 4294967 \/ (ms.k = 4294967 /\ ms.r < 296))

\* as operate, with the command written before the duration is checked
operate_write_first(shocker_id, operation, duration, intensity) ==
    IF intensity # <<>> /\ ~(0 <= intensity[1] /\ intensity[1] <= 100)
    THEN [outcome |-> Raise("ValueError", "intensity needs to be between 0 and 100"),
          written |-> <<>>]
    ELSE LET duration_ms == int_ms(duration)
             base == ("id" :> shocker_id) @@ ("op" :> operation)
                     @@ ("duration" :> [k |-> duration_ms.k, r |-> duration_ms.r])
             value == IF intensity # <<>>
                      THEN ("intensity" :> intensity[1]) @@ base
                      ELSE base
         IN  IF ~duration_ms_in_range(duration_ms)
             THEN [outcome |->
                       Raise("ValueError", "duration needs to be between 0 and 2**32 / 1000"),
                   written |-> _send_cmd("operate", PyDict(value))]
             ELSE [outcome |-> Return(<<>>),
                   written |-> _send_cmd("operate", PyDict(value))]

\* as operate, with the intensity limit 100 excluded
operate_below_100(shocker_id, operation, duration, intensity) ==
    IF intensity # <<>> /\ ~(0 <= intensity[1] /\ intensity[1] < 100)
    THEN [outcome |-> Raise("ValueError", "intensity needs to be between 0 and 100"),
          written |-> <<>>]
    ELSE LET duration_ms == int_ms(duration)
             base == ("id" :> shocker_id) @@ ("op" :> operation)
                     @@ ("duration" :> [k |-> duration_ms.k, r |-> duration_ms.r])
             value == IF intensity # <<>>
                      THEN ("intensity" :> intensity[1]) @@ base
                      ELSE base
         IN  IF ~duration_ms_in_range(duration_ms)
             THEN [outcome |->
                       Raise("ValueError", "duration needs to be between 0 and 2**32 / 1000"),
                   written |-> <<>>]
             ELSE [outcome |-> Return(<<>>),
                   written |-> _send_cmd("operate", PyDict(value))]

\* SerialAPI.operate: what it raises and what it writes.  intensity is <<>>
\* for None and <<i>> for a number; the duration on the line is
\* duration_ms, kept as its quotient k and remainder r by 1000.
operate(shocker_id, operation, duration, intensity) ==
    IF intensity # <<>> /\ ~(0 <= intensity[1] /\ intensity[1] <= 100)
    THEN [outcome |-> Raise("ValueError", "intensity needs to be between 0 and 100"),
          written |-> <<>>]
    ELSE LET duration_ms == int_ms(duration)
             base == ("id" :> shocker_id) @@ ("op" :> operation)
                     @@ ("duration" :> [k |-> duration_ms.k, r |-> duration_ms.r])
             value == IF intensity # <<>>
                      THEN ("intensity" :> intensity[1]) @@ base
                      ELSE base
         IN  IF ~duration_ms_in_range(duration_ms)
             THEN [outcome |->
                       Raise("ValueError", "duration needs to be between 0 and 2**32 / 1000"),
                   written |-> <<>>]
             ELSE [outcome |-> Return(<<>>),
                   written |-> _send_cmd("operate", PyDict(value))]

SHOCKER_ID == 1001

SerialShocker_shock(duration, intensity) ==
    operate(SHOCKER_ID, SerialOperation.SHOCK, duration, <<intensity>>)

SerialShocker_vibrate(duration, intensity) ==
    operate(SHOCKER_ID, SerialOperation.VIBRATE, duration, <<intensity>>)

\* as SerialShocker_beep, with an intensity of 0 passed on
SerialShocker_beep_intensity(duration) ==
    operate(SHOCKER_ID, SerialOperation.BEEP, duration, <<0>>)

SerialShocker_beep(duration) == operate(SHOCKER_ID, SerialOperation.BEEP, duration, <<>>)

SerialShocker_end == operate(SHOCKER_ID, SerialOperation.END, IntDur(0), <<>>)

(***************************************************************************)
(* The inputs of the calls and the responses of the server.                *)
(***************************************************************************)
\* int and float durations around the limits of both transports
HTTPDurations ==
    {IntDur(-1), IntDur(0), IntDur(1), IntDur(15), IntDur(16),
     FloatDur(TRUE, 1, 0), FloatDur(FALSE, 1, 0), FloatDur(FALSE, 15, 0),
     FloatDur(FALSE, 16, 0),
     FloatDur(FALSE, 0, 500),       \* 0.05
     FloatDur(FALSE, 0, 1000),      \* 0.1
     FloatDur(FALSE, 1, 1500),      \* 1.15
     FloatDur(FALSE, 1, 5000),      \* 1.5
     FloatDur(FALSE, 1, 5100),      \* 1.51
     FloatDur(FALSE, 1, 5900),      \* 1.59
     FloatDur(FALSE, 1, 6000)}      \* 1.6

SerialDurations ==
    {IntDur(-1), IntDur(0), IntDur(1), IntDur(16), IntDur(4294967), IntDur(4294968),
     FloatDur(TRUE, 0, 5),          \* -0.0005
     FloatDur(TRUE, 0, 10),         \* -0.001
     FloatDur(FALSE, 0, 500),       \* 0.05
     FloatDur(FALSE, 1, 6000),      \* 1.6
     FloatDur(FALSE, 4294967, 2950),    \* 4294967.295
     FloatDur(FALSE, 4294967, 2960)}    \* 4294967.296

Intensities == {-1, 0, 100, 101}

ClientIds == {621, 1000}

Statuses == {200, 204, 304, 400, 403, 404, 500}

Bodies ==
    DOMAIN _ERROR_MESSAGES \cup _SUCCESS_MESSAGES \cup DOMAIN JsonTexts
    \cup {_SUCCESS_MESSAGE_PAUSE, "Not JSON lol", ""}

Call(transport, method, duration, intensity, client_id) ==
    [transport |-> transport, method |-> method, duration |-> duration,
     intensity |-> intensity, client_id |-> client_id]

NoCall == Call("", "", IntDur(0), <<>>, 0)

Init ==
    /\ pc = "idle"
    /\ call = NoCall
    /\ outcome = NoOutcome
    /\ wire = <<>>
    /\ response = <<>>
    /\ written = <<>>
    /\ _cached_info = <<>>
    /\ next_read = <<>>
    /\ lines_read = <<>>
    /\ config_json = <<>>
    /\ settings = <<>>
    /\ run = [pc |-> "cli", error |-> "", now |-> 0, start_time |-> 0,
              max_runtime |-> <<>>, ticks |-> 0, spam |-> FALSE, n |-> 0,
              shocks |-> 0, vibrates |-> 0, draw |-> 0, slept |-> <<>>,
              last |-> [operation |-> -1, shocker |-> 0, duration |-> 0,
                        intensity |-> 0, exc |-> ""]]

\* an HTTP call starts: it raises at once, or its request goes out and the
\* call blocks for the response
StartHTTP(c, r) ==
    /\ call' = c
    /\ wire' = r.requests
    /\ outcome' = r.outcome
    /\ pc' = IF r.raised THEN "idle" ELSE "awaiting"
    /\ response' = <<>>
    /\ written' = <<>>
    /\ UNCHANGED <<handle, port_input, session, disk>>

\* the response to the request in flight arrives and the call ends
EndHTTP(resp, o) ==
    /\ wire' = <<>>
    /\ response' = <<resp>>
    /\ outcome' = o
    /\ pc' = "idle"
    /\ UNCHANGED <<call, written>>
    /\ UNCHANGED <<handle, port_input, session, disk>>

\* a serial call: it raises or writes, and returns
SerialCall(c, r) ==
    /\ call' = c
    /\ outcome' = r.outcome
    /\ written' = r.written
    /\ UNCHANGED <<pc, wire>>
    /\ response' = <<>>
    /\ UNCHANGED <<handle, port_input, session, disk>>

HTTPShock ==
    /\ pc = "idle"
    /\ \E d \in HTTPDurations, i \in Intensities :
           StartHTTP(Call("http", "shock", d, <<i>>, 0), HTTPShocker_shock(d, i))

HTTPVibrate ==
    /\ pc = "idle"
    /\ \E d \in HTTPDurations, i \in Intensities :
           StartHTTP(Call("http", "vibrate", d, <<i>>, 0), HTTPShocker_vibrate(d, i))

HTTPBeep ==
    /\ pc = "idle"
    /\ \E d \in HTTPDurations :
           StartHTTP(Call("http", "beep", d, <<>>, 0), HTTPShocker_beep(d))

OperateResponse ==
    /\ pc = "awaiting"
    /\ wire[1].endpoint = "apioperate"
    /\ \E status \in Statuses, text \in Bodies :
           LET resp == [status |-> status, text |-> text]
           IN  EndHTTP(resp, _call_outcome(resp))

\* HTTPShocker.info up to the request
info_request == request("GetShockerInfo", "Code" :> SHARECODE)

HTTPInfo ==
    /\ pc = "idle"
    /\ StartHTTP(Call("http", "info", IntDur(0), <<>>, 0),
                 [raised |-> FALSE, outcome |-> NoOutcome, requests |-> <<info_request>>])

\* as InfoResponse, with the info that is returned kept in the cache of pause
InfoResponse_caching ==
    /\ pc = "awaiting"
    /\ wire[1].endpoint = "GetShockerInfo"
    /\ \E status \in Statuses, text \in Bodies :
           LET resp == [status |-> status, text |-> text]
               info == info_outcome(resp)
           IN  /\ wire' = <<>>
               /\ response' = <<resp>>
               /\ outcome' = info
               /\ pc' = "idle"
               /\ _cached_info' = IF info.kind = "raise" THEN _cached_info ELSE info.value
               /\ UNCHANGED <<call, written, port_input, session, disk>>

InfoResponse ==
    /\ pc = "awaiting"
    /\ wire[1].endpoint = "GetShockerInfo"
    /\ \E status \in Statuses, text \in Bodies :
           LET resp == [status |-> status, text |-> text]
           IN  EndHTTP(resp, info_outcome(resp))

\* PiShockAPI.get_shockers up to the request
get_shockers_request(client_id) == request("GetShockers", "ClientId" :> client_id)

GetShockers ==
    /\ pc = "idle"
    /\ \E client_id \in ClientIds :
           StartHTTP(Call("http", "get_shockers", IntDur(0), <<>>, client_id),
                     [raised |-> FALSE, outcome |-> NoOutcome,
                      requests |-> <<get_shockers_request(client_id)>>])

GetShockersResponse ==
    /\ pc = "awaiting"
    /\ wire[1].endpoint = "GetShockers"
    /\ \E status \in Statuses, text \in Bodies :
           LET resp == [status |-> status, text |-> text]
           IN  EndHTTP(resp, get_shockers_outcome(resp, call.client_id))

\* PiShockAPI.verify_credentials up to the request
verify_credentials_request == request("VerifyApiCredentials", <<>>)

VerifyCredentials ==
    /\ pc = "idle"
    /\ StartHTTP(Call("http", "verify_credentials", IntDur(0), <<>>, 0),
                 [raised |-> FALSE, outcome |-> NoOutcome,
                  requests |-> <<verify_credentials_request>>])

VerifyCredentialsResponse ==
    /\ pc = "awaiting"
    /\ wire[1].endpoint = "VerifyApiCredentials"
    /\ \E status \in Statuses, text \in Bodies :
           LET resp == [status |-> status, text |-> text]
           IN  EndHTTP(resp, verify_credentials_outcome(resp))

SerialShock ==
    /\ pc = "idle"
    /\ \E d \in SerialDurations, i \in Intensities :
           SerialCall(Call("serial", "shock", d, <<i>>, 0), SerialShocker_shock(d, i))

SerialVibrate ==
    /\ pc = "idle"
    /\ \E d \in SerialDurations, i \in Intensities :
           SerialCall(Call("serial", "vibrate", d, <<i>>, 0), SerialShocker_vibrate(d, i))

SerialBeep ==
    /\ pc = "idle"
    /\ \E d \in SerialDurations :
           SerialCall(Call("serial", "beep", d, <<>>, 0), SerialShocker_beep(d))

SerialEnd ==
    /\ pc = "idle"
    /\ SerialCall(Call("serial", "end", IntDur(0), <<>>, 0), SerialShocker_end)

Next ==
    \/ HTTPShock
    \/ HTTPVibrate
    \/ HTTPBeep
    \/ OperateResponse
    \/ HTTPInfo
    \/ InfoResponse
    \/ GetShockers
    \/ GetShockersResponse
    \/ VerifyCredentials
    \/ VerifyCredentialsResponse
    \/ SerialShock
    \/ SerialVibrate
    \/ SerialBeep
    \/ SerialEnd

Spec == Init /\ [][Next]_vars

(***************************************************************************)
(* Properties.                                                             *)
(***************************************************************************)
IsOperation == call.method \in {"shock", "vibrate", "beep"}

RaisedValueError == outcome.kind = "raise" /\ outcome.exc = "ValueError"

NoIO == wire = <<>> /\ written = <<>> /\ response = <<>>

IntensityInDomain(c) ==
    c.intensity = <<>> \/ (0 <= c.intensity[1] /\ c.intensity[1] <= 100)

\* a duration in units of 1/Scale second (for the durations of HTTP calls)
Units(d) == d.secs * Scale + d.frac

\* whole seconds 0..15, or a fraction of a second from 0.1 up to below the
\* given number of tenths
HTTPDurationUpTo(d, tenths) ==
    IF d.frac = 0
    THEN (d.secs = 0 \/ ~d.neg) /\ d.secs <= 15
    ELSE ~d.neg /\ Scale <= 10 * Units(d) /\ 10 * Units(d) < tenths * Scale

HTTPDurationInDomain(d) == HTTPDurationUpTo(d, 16)

\* the milliseconds of the duration, cut toward zero, lie in 0..2**32 - 1
SerialDurationInDomain(d) ==
    LET ms == d.frac \div (Scale \div 1000)
    IN  /\ d.neg => (d.secs = 0 /\ ms = 0)
        /\ d.secs < 4294967 \/ (d.secs = 4294967 /\ ms <= 295)

InDomain(c) ==
    /\ IntensityInDomain(c)
    /\ IF c.transport = "http"
       THEN HTTPDurationInDomain(c.duration)
       ELSE SerialDurationInDomain(c.duration)

IsHTTPOperation == call.transport = "http" /\ IsOperation

\* C2 as stated: HTTPShocker accepts a duration iff it is integer-valued in
\* 0..15 or a non-integer d with 0.1 <= d < 1.5.
C2_WindowBelow_1_5 ==
    (IsHTTPOperation /\ IntensityInDomain(call))
        => (~RaisedValueError <=> HTTPDurationUpTo(call.duration, 15))

\* C2 as amended: HTTPShocker accepts a duration iff it is integer-valued in
\* 0..15 or a non-integer d with 0.1 <= d < 1.6; every other duration raises
\* ValueError.
C2_WindowBelow_1_6 ==
    (IsHTTPOperation /\ IntensityInDomain(call))
        => (~RaisedValueError <=> HTTPDurationUpTo(call.duration, 16))

C2_Witness ==
    /\ IsHTTPOperation /\ call.duration = FloatDur(FALSE, 1, 5100)
    /\ pc = "awaiting" /\ wire[1].params["Duration"] = 1510

\* C3: the Duration field of an apioperate request is the duration itself
\* for an integer-valued duration (int or float) and the integer part of
\* duration * 1000 for a fractional one; the first lies in 0..15 and the
\* second is at least 100, so the two encodings never coincide.
C3_DurationField ==
    (wire # <<>> /\ wire[1].endpoint = "apioperate") =>
        LET sent == wire[1].params["Duration"]
        IN  IF call.duration.frac = 0
            THEN sent = call.duration.secs /\ sent \in 0..15
            ELSE sent = Units(call.duration) \div (Scale \div 1000) /\ sent >= 100

C3_Witness ==
    /\ wire # <<>> /\ wire[1].endpoint = "apioperate"
    /\ call.duration = FloatDur(FALSE, 1, 1500)
    /\ wire[1].params["Duration"] = 1150

\* C4: on both transports shock and vibrate raise the intensity ValueError
\* iff the intensity is below 0 or above 100, and an intensity in 0..100
\* with an accepted duration raises no ValueError.
C4_IntensityDomain ==
    call.method \in {"shock", "vibrate"} =>
        /\ (RaisedValueError
              /\ outcome.detail = "intensity needs to be between 0 and 100")
           <=> ~IntensityInDomain(call)
        /\ InDomain(call) => ~RaisedValueError

C4_Witness ==
    /\ call.transport = "serial" /\ call.method = "vibrate"
    /\ call.intensity = <<100>> /\ call.duration = IntDur(1)
    /\ outcome = Return(<<>>) /\ Len(written) = 1

\* C5: an apioperate request has an Intensity field iff its Op is not BEEP,
\* a serial operate command has an intensity field iff its op is shock or
\* vibrate, and a beep call sends Op BEEP (op beep).
C5_BeepHasNoIntensity ==
    /\ (wire # <<>> /\ wire[1].endpoint = "apioperate") =>
          /\ "Intensity" \in DOMAIN wire[1].params
             <=> wire[1].params["Op"] # Operation.BEEP
          /\ wire[1].params["Op"] = Operation.BEEP <=> call.method = "beep"
    /\ \A n \in 1..Len(written) :
          written[n].doc["cmd"] = "operate" =>
              /\ "intensity" \in DOMAIN written[n].doc["value"]
                 <=> written[n].doc["value"]["op"] \in {"shock", "vibrate"}
              /\ written[n].doc["value"]["op"] = call.method

C5_Witness ==
    /\ call.transport = "serial" /\ call.method = "beep"
    /\ Len(written) = 1
    /\ written[1].doc["value"]["op"] = "beep"
    /\ "intensity" \notin DOMAIN written[1].doc["value"]

\* the typed error each known failure body stands for
ExpectedError(text) ==
    CASE text = "Not Authorized." -> "NotAuthorizedError"
      [] text = "This code doesn't exist." -> "ShareCodeNotFoundError"
      [] text = "This share code has already been used by somebody else."
            -> "ShareCodeAlreadyUsedError"
      [] text = "Shocker is Paused or does not exist. Unpause to send command."
            -> "ShockerPausedError"
      [] text = "Device currently not connected." -> "DeviceNotConnectedError"
      [] text = "Device in Use." -> "DeviceInUseError"
      [] text = "Shock not allowed." -> "ShockNotAllowedError"
      [] text = "Vibrate not allowed." -> "VibrateNotAllowedError"
      [] text = "Beep not allowed." -> "BeepNotAllowedError"
      [] OTHER -> ""

Answered == pc = "idle" /\ response # <<>>

\* C6: for a 2xx apioperate response the body decides the outcome: each of
\* the nine failure literals raises its own typed error, each of the two
\* success literals returns normally, every other body raises UnknownError
\* carrying the body.
C6_BodyDecidesOutcome ==
    (IsHTTPOperation /\ Answered /\ response[1].status \in 200..299) =>
        LET text == response[1].text
        IN  CASE ExpectedError(text) # ""
                    -> outcome = Raise(ExpectedError(text), text)
              [] text \in {"Operation Succeeded.", "Operation Attempted."}
                    -> outcome = Return(<<>>)
              [] OTHER -> outcome = Raise("UnknownError", text)

C6_Witness ==
    /\ IsHTTPOperation /\ Answered
    /\ response[1] = [status |-> 200, text |-> "Device in Use."]
    /\ outcome = Raise("DeviceInUseError", "Device in Use.")

IsCall(method) == call.transport = "http" /\ call.method = method

TypedErrors == {ExpectedError(text) : text \in Bodies} \ {""}

\* C7: every answered HTTP call ends in a normal return, one typed vendor
\* error, HTTPError or UnknownError, whatever the status and the body.
C7_OutcomeMappingTotal ==
    (call.transport = "http" /\ Answered) =>
        \/ outcome.kind = "return"
        \/ outcome.kind = "raise"
           /\ outcome.exc \in TypedErrors \cup {"HTTPError", "UnknownError"}

C9_GetShockersMapping ==
    (IsCall("get_shockers") /\ Answered) =>
        LET r == response[1]
        IN  CASE r.status = 403
                    -> outcome = Raise("NotAuthorizedError", "Not Authorized.")
              [] r.status \in 400..599
                    -> outcome = HTTPError(r.status, r.text)
              [] r.status \in 200..299 /\ r.text \notin DOMAIN JsonTexts
                    -> outcome = Raise("UnknownError", r.text)
              [] r.status \in 200..299 /\ r.text = SHOCKERS_BODY
                    -> /\ outcome.kind = "return"
                       /\ Len(outcome.value[1]) = 2
                       /\ \A n \in 1..2 :
                              outcome.value[1][n].client_id = call.client_id
              [] OTHER -> TRUE

pause_needs_info_always(cached) == TRUE

\* pause: "if self._cached_info is None"
pause_needs_info(cached) == cached = <<>>

\* pause up to the PauseShocker request
pause_request(info, pause) ==
    request("PauseShocker", ("ShockerId" :> info.shocker_id) @@ ("Pause" :> pause))

\* as pause_outcome, with the success literals of apioperate accepted
pause_outcome_any_success(resp) ==
    LET r == request_result(resp)
    IN  IF r.kind = "raise" THEN r
        ELSE IF resp.text = NotAuthorizedError
        THEN Raise("NotAuthorizedError", resp.text)
        ELSE IF resp.text \notin _SUCCESS_MESSAGES \cup {_SUCCESS_MESSAGE_PAUSE}
        THEN Raise("UnknownError", resp.text)
        ELSE Return(<<>>)

\* pause after the PauseShocker request: HTTPError from request, or the
\* outcome the body decides
pause_outcome(resp) ==
    LET r == request_result(resp)
    IN  IF r.kind = "raise" THEN r
        ELSE IF resp.text = NotAuthorizedError
        THEN Raise("NotAuthorizedError", resp.text)
        ELSE IF resp.text # _SUCCESS_MESSAGE_PAUSE
        THEN Raise("UnknownError", resp.text)
        ELSE Return(<<>>)

PauseCall(pause) ==
    [transport |-> "http", method |-> "pause", duration |-> IntDur(0),
     intensity |-> <<>>, client_id |-> 0, pause |-> pause]

\* pause(True) or pause(False) starts: the lookup goes out when nothing is
\* cached, the PauseShocker request otherwise
Pause ==
    /\ pc = "idle"
    /\ \E pause \in BOOLEAN :
           /\ call' = PauseCall(pause)
           /\ IF pause_needs_info(_cached_info)
              THEN wire' = <<info_request>> /\ pc' = "lookup"
              ELSE /\ wire' = <<pause_request(_cached_info[1], pause)>>
                   /\ pc' = "awaiting"
           /\ outcome' = NoOutcome
           /\ response' = <<>>
           /\ written' = <<>>
           /\ UNCHANGED <<_cached_info, port_input, session, disk>>

\* the response to pause's lookup: info raises and pause ends with its
\* exception, or the info is cached and the PauseShocker request goes out
PauseLookupResponse ==
    /\ pc = "lookup"
    /\ \E status \in Statuses, text \in Bodies :
           LET resp == [status |-> status, text |-> text]
               info == info_outcome(resp)
           IN  IF info.kind = "raise"
               THEN EndHTTP(resp, info)
               ELSE /\ _cached_info' = info.value
                    /\ wire' = <<pause_request(info.value[1], call.pause)>>
                    /\ pc' = "awaiting"
                    /\ response' = <<resp>>
                    /\ UNCHANGED <<call, outcome, written, port_input, session, disk>>

PauseResponse ==
    /\ pc = "awaiting"
    /\ wire[1].endpoint = "PauseShocker"
    /\ \E status \in Statuses, text \in Bodies :
           LET resp == [status |-> status, text |-> text]
           IN  EndHTTP(resp, pause_outcome(resp))

\* one HTTPShocker handle on which pause and info are called
PauseNext ==
    \/ Pause
    \/ PauseLookupResponse
    \/ PauseResponse
    \/ HTTPInfo
    \/ InfoResponse

PauseSpec == Init /\ [][PauseNext]_vars

\* C11: once a lookup made by pause has succeeded, no later pause call
\* requests GetShockerInfo again, the cached info is never changed or
\* cleared (whatever the PauseShocker responses are), and every PauseShocker
\* request carries the shocker id of the cached info
C11_LookupOnceIdReused ==
    [][/\ _cached_info # <<>> =>
            /\ _cached_info' = _cached_info
            /\ ~(/\ call'.method = "pause"
                 /\ wire' # <<>>
                 /\ wire'[1].endpoint = "GetShockerInfo")
       /\ (wire' # <<>> /\ wire'[1].endpoint = "PauseShocker") =>
            /\ _cached_info' # <<>>
            /\ wire'[1].params["ShockerId"] = _cached_info'[1].shocker_id
            /\ _cached_info = <<>> =>
                   _cached_info' = info_outcome(response'[1]).value]_vars

\* a later pause call is in flight: it made no lookup of its own and its
\* request carries the id cached by an earlier call
C11_Witness ==
    /\ pc = "awaiting"
    /\ call.method = "pause"
    /\ response = <<>>
    /\ wire[1].endpoint = "PauseShocker"
    /\ wire[1].params["ShockerId"] = 1002

\* C12: a PauseShocker response with a 2xx status ends pause with a normal
\* return exactly when the body is the pause success literal, with
\* NotAuthorizedError when the body is "Not Authorized.", and with
\* UnknownError for every other body
C12_PauseBodyDecidesOutcome ==
    (/\ Answered
     /\ call.method = "pause"
     /\ _cached_info # <<>>
     /\ 200 <= response[1].status
     /\ response[1].status < 300)
    => LET text == response[1].text
       IN  /\ outcome.kind = "return" <=> text = _SUCCESS_MESSAGE_PAUSE
           /\ text = NotAuthorizedError => outcome = Raise("NotAuthorizedError", text)
           /\ text \notin {_SUCCESS_MESSAGE_PAUSE, NotAuthorizedError} =>
                  outcome = Raise("UnknownError", text)

\* a 2xx PauseShocker response with a success literal of apioperate has
\* ended pause with UnknownError
C12_Witness ==
    /\ Answered
    /\ call.method = "pause"
    /\ _cached_info # <<>>
    /\ response[1].status = 200
    /\ response[1].text \in _SUCCESS_MESSAGES
    /\ outcome = Raise("UnknownError", response[1].text)

\* C33: when the lookup made by pause() fails, with an HTTP error, a typed
\* error or UnknownError, pause() ends with that error, no PauseShocker
\* request is sent and the cache stays empty, so that the next pause() call
\* repeats the lookup; a direct info() call never populates the cache.
C33_FailedLookupLeavesCacheEmpty ==
    [][/\ (pc = "lookup" /\ info_outcome(response'[1]).kind = "raise") =>
            /\ outcome' = info_outcome(response'[1])
            /\ pc' = "idle"
            /\ wire' = <<>>
            /\ _cached_info' = <<>>
       /\ (pc = "idle" /\ call'.method = "pause" /\ _cached_info = <<>>) =>
            /\ pc' = "lookup"
            /\ wire' = <<info_request>>
       /\ (wire' # <<>> /\ wire'[1].endpoint = "PauseShocker") =>
            \/ _cached_info # <<>>
            \/ pc = "lookup" /\ info_outcome(response'[1]).kind = "return"
       /\ call'.method = "info" => _cached_info' = _cached_info]_vars

\* pause() has ended with the ShareCodeNotFoundError of its lookup: nothing
\* is cached and no request is in flight
C33_Witness ==
    /\ pc = "idle"
    /\ call.method = "pause"
    /\ _cached_info = <<>>
    /\ wire = <<>>
    /\ response # <<>>
    /\ response[1].status = 404
    /\ outcome.exc = "ShareCodeNotFoundError"

(***************************************************************************)
(* SerialAPI: the commands other than operate, and port autodetection.     *)
(***************************************************************************)
add_network(ssid, password) ==
    _send_cmd("addnetwork", PyDict(("ssid" :> ssid) @@ ("password" :> password)))

remove_network(ssid) == _send_cmd("removenetwork", PyStr(ssid))

try_connect(ssid, password) ==
    _send_cmd("connect", PyDict(("ssid" :> ssid) @@ ("password" :> password)))

restart == _send_cmd("restart", PyNone)

\* command names and payloads given to _send_cmd: one falsy and one truthy
\* value of each type
Commands == {"info", "removenetwork"}

Payloads ==
    <<PyNone,
      PyDict(<<>>), PyDict(("ssid" :> "test") @@ ("password" :> "hunter2")),
      PyStr(""), PyStr("test"),
      PyInt(0), PyInt(1),
      PyBool(FALSE), PyBool(TRUE),
      PyList(<<>>), PyList(<<"test">>)>>

SSIDs == {"", "test"}

Passwords == {"", "hunter2"}

\* a call that sends the command cmd with the payload value
CmdCall(method, cmd, value) ==
    [transport |-> "serial", method |-> method, duration |-> IntDur(0),
     intensity |-> <<>>, client_id |-> 0, cmd |-> cmd, value |-> value]

Sent(lines) == [outcome |-> Return(<<>>), written |-> lines]

SendCmd ==
    /\ pc = "idle"
    /\ \E cmd \in Commands, i \in DOMAIN Payloads :
           SerialCall(CmdCall("_send_cmd", cmd, Payloads[i]),
                      Sent(_send_cmd(cmd, Payloads[i])))

AddNetwork ==
    /\ pc = "idle"
    /\ \E ssid \in SSIDs, password \in Passwords :
           SerialCall(CmdCall("add_network", "addnetwork",
                              PyDict(("ssid" :> ssid) @@ ("password" :> password))),
                      Sent(add_network(ssid, password)))

RemoveNetwork ==
    /\ pc = "idle"
    /\ \E ssid \in SSIDs :
           SerialCall(CmdCall("remove_network", "removenetwork", PyStr(ssid)),
                      Sent(remove_network(ssid)))

TryConnect ==
    /\ pc = "idle"
    /\ \E ssid \in SSIDs, password \in Passwords :
           SerialCall(CmdCall("try_connect", "connect",
                              PyDict(("ssid" :> ssid) @@ ("password" :> password))),
                      Sent(try_connect(ssid, password)))

Restart ==
    /\ pc = "idle"
    /\ SerialCall(CmdCall("restart", "restart", PyNone), Sent(restart))

\* the (vendor id, product id) pairs of the two PiShock USB chips
USB_IDS == << <<6790, 29987>>, <<6790, 21972>> >>

is_maybe_pishock(info) == \E i \in DOMAIN USB_IDS : USB_IDS[i] = <<info.vid, info.pid>>

\* the candidates of _autodetect_port: the devices of the matching ports,
\* in the order of comports()
RECURSIVE candidates_of(_)
candidates_of(comports) ==
    IF comports = <<>> THEN <<>>
    ELSE IF is_maybe_pishock(Head(comports))
    THEN <<Head(comports).device>> \o candidates_of(Tail(comports))
    ELSE candidates_of(Tail(comports))

\* as _autodetect_port, taking the first of several candidates
_autodetect_port_first(comports) ==
    LET candidates == candidates_of(comports)
    IN  IF Len(candidates) >= 1 THEN Return(<<candidates[1]>>)
        ELSE Raise("SerialAutodetectError", candidates)

\* _autodetect_port: the port, or SerialAutodetectError whose message names
\* the candidates (none, or the several found)
_autodetect_port(comports) ==
    LET candidates == candidates_of(comports)
    IN  IF Len(candidates) = 1 THEN Return(<<candidates[1]>>)
        ELSE Raise("SerialAutodetectError", candidates)

\* SerialAPI.__init__: the port the device is opened on.  port is <<>> for
\* None and <<name>> for an explicit port.
SerialAPI_init(port, comports) ==
    IF port = <<>> THEN _autodetect_port(comports) ELSE Return(port)

\* the ports of the host: the two chips, a port that is no USB device (its
\* ids are None, here 0) and a port of the same vendor with another product
ListPortInfo(device, vid, pid) == [device |-> device, vid |-> vid, pid |-> pid]

Ports ==
    {ListPortInfo("/dev/ttyUSBFAKE1", 6790, 29987),
     ListPortInfo("/dev/ttyUSBFAKE2", 6790, 21972),
     ListPortInfo("/dev/ttyUSBFAKE3", 0, 0),
     ListPortInfo("/dev/ttyUSBFAKE4", 6790, 29988)}

MaxPorts == 3

\* what comports() can return: up to MaxPorts different ports in any order
Comports ==
    {c \in UNION {[1..n -> Ports] : n \in 0..MaxPorts} :
        \A i, j \in DOMAIN c : c[i] = c[j] => i = j}

SERIAL_PORT == "/dev/ttyFAKE"

SerialAPICall(port, comports) ==
    [transport |-> "serial", method |-> "SerialAPI", duration |-> IntDur(0),
     intensity |-> <<>>, client_id |-> 0, port |-> port, comports |-> comports]

SerialAPIInit ==
    /\ pc = "idle"
    /\ \E port \in {<<>>, <<SERIAL_PORT>>}, comports \in Comports :
           SerialCall(SerialAPICall(port, comports),
                      [outcome |-> SerialAPI_init(port, comports), written |-> <<>>])

SerialNext ==
    \/ SendCmd
    \/ AddNetwork
    \/ RemoveNetwork
    \/ TryConnect
    \/ Restart
    \/ SerialAPIInit

SerialSpec == Init /\ [][SerialNext]_vars

\* None and the empty or zero value of each type
FalsyPayloads ==
    <<PyNone, PyDict(<<>>), PyStr(""), PyInt(0), PyBool(FALSE), PyList(<<>>)>>

IsFalsyPayload(value) ==
    \E i \in DOMAIN FalsyPayloads :
        /\ value.type = FalsyPayloads[i].type
        /\ value = FalsyPayloads[i]

\* C13: a command is written as one line, a JSON object followed by a
\* newline, that holds the command under "cmd" and nothing else but
\* "value"; "value" is absent for None and for every empty or falsy payload
\* and is the payload itself for every other payload
C13_ValueKeyIffTruthy ==
    (call.transport = "serial" /\ "cmd" \in DOMAIN call)
    => /\ Len(written) = 1
       /\ written[1].end = "\n"
       /\ DOMAIN written[1].doc \subseteq {"cmd", "value"}
       /\ "cmd" \in DOMAIN written[1].doc
       /\ written[1].doc["cmd"] = call.cmd
       /\ IF IsFalsyPayload(call.value)
          THEN "value" \notin DOMAIN written[1].doc
          ELSE /\ "value" \in DOMAIN written[1].doc
               /\ written[1].doc["value"] = call.value.value

\* remove_network("") has written a removenetwork line without a value
C13_Witness ==
    /\ call.method = "remove_network"
    /\ call.value = PyStr("")
    /\ written = <<[doc |-> ("cmd" :> "removenetwork"), end |-> "\n"]>>

\* the indices of the ports in a comports() result whose ids are allowed
Matching(comports) ==
    {i \in DOMAIN comports :
        <<comports[i].vid, comports[i].pid>> \in {<<6790, 29987>>, <<6790, 21972>>}}

\* C15: SerialAPI(port) with an explicit port opens that port whatever
\* ports the host has; with port None it opens the one port whose ids are
\* in the allowlist when there is exactly one, and raises
\* SerialAutodetectError naming every matching port when there is none or
\* more than one
C15_AutodetectSingleMatch ==
    (call.transport = "serial" /\ call.method = "SerialAPI")
    => LET m == Matching(call.comports)
       IN  /\ call.port # <<>> => outcome = Return(call.port)
           /\ (call.port = <<>> /\ Cardinality(m) = 1) =>
                  \E i \in m : outcome = Return(<<call.comports[i].device>>)
           /\ (call.port = <<>> /\ Cardinality(m) # 1) =>
                  /\ outcome.kind = "raise"
                  /\ outcome.exc = "SerialAutodetectError"
                  /\ Len(outcome.detail) = Cardinality(m)
                  /\ {outcome.detail[i] : i \in DOMAIN outcome.detail}
                        = {call.comports[i].device : i \in m}

\* autodetection has found both chips and raised, naming the two ports
C15_Witness ==
    /\ call.method = "SerialAPI"
    /\ call.port = <<>>
    /\ Cardinality(Matching(call.comports)) = 2
    /\ outcome.exc = "SerialAutodetectError"
    /\ Len(outcome.detail) = 2

(***************************************************************************)
(* SerialAPI: reading.  A line is the sequence of the pieces of text it    *)
(* is made of, so that startswith and the slice after the prefix are       *)
(* operations on it; <<>> is the empty line that dev.readline() returns    *)
(* when the port's read timeout of one second passes with nothing to read. *)
(***************************************************************************)
INFO_PREFIX == "TERMINALINFO: "

INFO_TIMEOUT == 20

SERIAL_INFO == "{\"clientId\": 1000, \"shockers\": [{\"id\": 1001, \"paused\": false}]}"

TRUNCATED_INFO == "{\"clientId\": 10"

\* json.loads on the payloads the device model sends
json_loads(text) ==
    IF text = SERIAL_INFO
    THEN Return(<<JObject(("clientId" :> 1000)
                          @@ ("shockers" :>
                                JArray(<<JObject(("id" :> 1001) @@ ("paused" :> FALSE))>>)))>>)
    ELSE json(text)

startswith(line, prefix) == line # <<>> /\ Head(line) = prefix

\* SerialAPI.decode_info: the JSON object after the prefix, or the
\* JSONDecodeError of json.loads, or AssertionError for JSON that is no object
decode_info(line) ==
    LET data == json_loads(IF Len(line) >= 2 THEN line[2] ELSE "")
    IN  IF data.kind = "raise" THEN data
        ELSE IF data.value[1].type # "object" THEN Raise("AssertionError", "")
        ELSE data

\* dev.readline() on the lines not read yet
readline(lines) == IF lines = <<>> THEN <<>> ELSE Head(lines)

\* the loop of wait_info from the state (count, lines read so far): how it
\* ends, the lines left unread and the lines read
RECURSIVE wait_info_loop(_, _, _, _)
wait_info_loop(lines, timeout, count, got) ==
    IF ~(count < timeout)
    THEN [outcome |-> Raise("TimeoutError", "No info received within timeout."),
          rest |-> lines, read |-> got]
    ELSE LET line == readline(lines)
             rest == IF lines = <<>> THEN <<>> ELSE Tail(lines)
         IN  IF startswith(line, INFO_PREFIX)
             THEN [outcome |-> decode_info(line), rest |-> rest,
                   read |-> Append(got, line)]
             ELSE wait_info_loop(rest, timeout, count + 1, Append(got, line))

\* as wait_info, with the loop condition count <= timeout
wait_info_inclusive(lines, timeout) == wait_info_loop(lines, timeout + 1, 0, <<>>)

\* SerialAPI.wait_info(timeout) for an integer timeout
wait_info(lines, timeout) == wait_info_loop(lines, timeout, 0, <<>>)

\* as SerialAPI_info, with the lines that wait on the port thrown away
\* before the command is written
SerialAPI_info_flushing(lines, timeout) ==
    [written |-> _send_cmd("info", PyNone)] @@ wait_info(<<>>, timeout)

\* SerialAPI.info(timeout): the info command is written, then wait_info
SerialAPI_info(lines, timeout) ==
    [written |-> _send_cmd("info", PyNone)] @@ wait_info(lines, timeout)

\* the ids of "{s["id"]: s for s in data["shockers"]}", or the KeyError or
\* TypeError of building it
shocker_ids(data) ==
    LET l == getitem(data, "shockers")
    IN  IF l.kind = "raise" THEN l
        ELSE IF l.value[1].type # "array" THEN Raise("TypeError", "")
        ELSE LET items == l.value[1].arr
             IN  IF \E i \in DOMAIN items : getitem(items[i], "id").kind = "raise"
                 THEN getitem(items[CHOOSE i \in DOMAIN items :
                                      /\ getitem(items[i], "id").kind = "raise"
                                      /\ \A j \in 1..(i - 1) :
                                            getitem(items[j], "id").kind # "raise"],
                              "id")
                 ELSE Return(<<{items[i].obj["id"] : i \in DOMAIN items}>>)

\* as SerialShocker_info, without the test that the shocker is listed
SerialShocker_info_unchecked(shocker_id, data) ==
    IF getitem(data, "clientId").kind = "raise" THEN getitem(data, "clientId")
    ELSE Return(<<[client_id |-> data.obj["clientId"], shocker_id |-> shocker_id]>>)

\* SerialShocker.info after api.info() has returned data
SerialShocker_info(shocker_id, data) ==
    LET ids == shocker_ids(data)
    IN  IF ids.kind = "raise" THEN ids
        ELSE IF shocker_id \notin ids.value[1]
        THEN Raise("ShockerNotFoundError", "not found")
        ELSE IF getitem(data, "clientId").kind = "raise"
        THEN getitem(data, "clientId")
        ELSE Return(<<[client_id |-> data.obj["clientId"],
                       shocker_id |-> shocker_id]>>)

\* as SerialShocker_init, with a wait that is twice as long
SerialShocker_init_patient(shocker_id, lines) ==
    LET r == SerialAPI_info(lines, 2 * INFO_TIMEOUT)
        info == IF r.outcome.kind = "raise" THEN r.outcome
                ELSE SerialShocker_info(shocker_id, r.outcome.value[1])
    IN  [r EXCEPT !.outcome = IF info.kind = "raise" THEN info
                              ELSE Return(<<[shocker_id |-> shocker_id]>>)]

\* SerialShocker.__init__: info is called for its check only; the handle is
\* returned when it does not raise
SerialShocker_init(shocker_id, lines) ==
    LET r == SerialAPI_info(lines, INFO_TIMEOUT)
        info == IF r.outcome.kind = "raise" THEN r.outcome
                ELSE SerialShocker_info(shocker_id, r.outcome.value[1])
    IN  [r EXCEPT !.outcome = IF info.kind = "raise" THEN info
                              ELSE Return(<<[shocker_id |-> shocker_id]>>)]

\* the lines the device sends: log output, log output that quotes the
\* prefix, and info lines with an empty object, a full info and a cut-off one
DeviceLines ==
    {<<"not terminalinfo">>,
     <<"[debug] sent ", INFO_PREFIX, "{}">>,
     <<INFO_PREFIX, "{}">>,
     <<INFO_PREFIX, SERIAL_INFO>>,
     <<INFO_PREFIX, TRUNCATED_INFO>>}

MaxLines == 3

MaxArrive == 2

MaxTimeout == 3

\* the lines that reach the port while a call reads
Arrivals == UNION {[1..n -> DeviceLines] : n \in 0..MaxArrive}

ShockerIds == {SHOCKER_ID, SHOCKER_ID + 1}

ReadCall(method, timeout, shocker_id) ==
    [transport |-> "serial", method |-> method, duration |-> IntDur(0),
     intensity |-> <<>>, client_id |-> 0, timeout |-> timeout,
     shocker_id |-> shocker_id]

\* a reading call: what it wrote, how it ended, and what it read and left
Reading(c, r) ==
    /\ call' = c
    /\ written' = r.written
    /\ outcome' = r.outcome
    /\ next_read' = r.rest
    /\ lines_read' = r.read
    /\ response' = <<>>
    /\ UNCHANGED <<pc, wire, handle, session, disk>>

WaitInfo ==
    /\ pc = "idle"
    /\ \E timeout \in 0..MaxTimeout, arrived \in Arrivals :
           /\ Len(next_read) + Len(arrived) <= MaxLines
           /\ Reading(ReadCall("wait_info", timeout, 0),
                      [written |-> <<>>] @@ wait_info(next_read \o arrived, timeout))

SerialInfo ==
    /\ pc = "idle"
    /\ \E arrived \in Arrivals :
           /\ Len(next_read) + Len(arrived) <= MaxLines
           /\ Reading(ReadCall("info", INFO_TIMEOUT, 0),
                      SerialAPI_info(next_read \o arrived, INFO_TIMEOUT))

SerialShockerInit ==
    /\ pc = "idle"
    /\ \E shocker_id \in ShockerIds, arrived \in Arrivals :
           /\ Len(next_read) + Len(arrived) <= MaxLines
           /\ Reading(ReadCall("SerialShocker", INFO_TIMEOUT, shocker_id),
                      SerialShocker_init(shocker_id, next_read \o arrived))

ReadNext ==
    \/ WaitInfo
    \/ SerialInfo
    \/ SerialShockerInit

ReadSpec == Init /\ [][ReadNext]_vars

IsSentinel(line) == line # <<>> /\ line[1] = "TERMINALINFO: "

\* C14: a step of wait_info(timeout = N) reads at most N lines, none of
\* them but the last starts with the prefix; if the last one does, the call
\* ends with that line decoded, and otherwise it has read exactly N lines
\* and ends with TimeoutError; the lines read and the lines left unread
\* are, in order, the lines that were waiting and arrived (followed by
\* empty reads once those ran out)
C14_AtMostNLines ==
    [][call'.method = "wait_info" =>
          LET N == call'.timeout
              got == lines_read'
              all == lines_read' \o next_read'
          IN  /\ Len(got) <= N
              /\ \A i \in 1..(Len(got) - 1) : ~IsSentinel(got[i])
              /\ IF got # <<>> /\ IsSentinel(got[Len(got)])
                 THEN /\ outcome' = decode_info(got[Len(got)])
                      /\ got[Len(got)][2] \in {"{}", SERIAL_INFO} =>
                             outcome'.kind = "return"
                 ELSE Len(got) = N /\ outcome'.exc = "TimeoutError"
              /\ \E arrived \in Arrivals :
                     LET lines == next_read \o arrived
                     IN  /\ Len(all) >= Len(lines)
                         /\ SubSeq(all, 1, Len(lines)) = lines
                         /\ \A i \in (Len(lines) + 1)..Len(all) : all[i] = <<>>
                         /\ Len(all) > Len(lines) => next_read' = <<>>]_vars

\* wait_info has timed out after reading its N >= 1 lines, and the line it
\* would have read next is an info line, still unread
C14_Witness ==
    /\ call.method = "wait_info"
    /\ call.timeout >= 1
    /\ outcome.exc = "TimeoutError"
    /\ Len(lines_read) = call.timeout
    /\ next_read # <<>>
    /\ IsSentinel(Head(next_read))

\* the last line the call read is an info line with a shocker list (the
\* list of the device model holds shocker 1001 only)
ReportedList(lines) ==
    /\ lines # <<>>
    /\ IsSentinel(lines[Len(lines)])
    /\ lines[Len(lines)][2] = SERIAL_INFO

\* C17: constructing a SerialShocker writes the info command and nothing
\* else; it returns a handle only if the device reported a shocker list
\* that holds the shocker id, and it raises ShockerNotFoundError if the
\* reported list does not hold the id
C17_UnknownShockerRejected ==
    (call.transport = "serial" /\ call.method = "SerialShocker")
    => /\ written = <<[doc |-> ("cmd" :> "info"), end |-> "\n"]>>
       /\ outcome.kind \in {"return", "raise"}
       /\ outcome.kind = "return" =>
              /\ ReportedList(lines_read)
              /\ call.shocker_id = 1001
              /\ outcome.value = <<[shocker_id |-> call.shocker_id]>>
       /\ (ReportedList(lines_read) /\ call.shocker_id # 1001) =>
              /\ outcome.exc = "ShockerNotFoundError"
              /\ outcome.value = <<>>

\* the device has reported shocker 1001 and the construction for 1002 has
\* raised ShockerNotFoundError
C17_Witness ==
    /\ call.method = "SerialShocker"
    /\ call.shocker_id = 1002
    /\ ReportedList(lines_read)
    /\ outcome.exc = "ShockerNotFoundError"
    /\ written = <<[doc |-> ("cmd" :> "info"), end |-> "\n"]>>

\* the lines a call read and left unread are, in order, the lines that were
\* waiting on the port and the lines that arrived, followed by empty reads
\* once those ran out
ReadInOrder ==
    LET all == lines_read' \o next_read'
    IN  \E arrived \in Arrivals :
            LET lines == next_read \o arrived
            IN  /\ Len(all) >= Len(lines)
                /\ SubSeq(all, 1, Len(lines)) = lines
                /\ \A i \in (Len(lines) + 1)..Len(all) : all[i] = <<>>
                /\ Len(all) > Len(lines) => next_read' = <<>>

\* C32: SerialAPI.info() writes exactly one info command and returns the
\* decoded payload of the first sentinel line it reads, whichever command or
\* event made the device send that line: a sentinel line that was already
\* waiting or that arrives before the answer is the one returned, and the
\* lines after it, the answer included, stay unread for the next wait.
C32_FirstSentinelLineAnswers ==
    [][call'.method = "info" =>
          LET got == lines_read'
          IN  /\ written' = <<[doc |-> ("cmd" :> "info"), end |-> "\n"]>>
              /\ ReadInOrder
              /\ Len(got) <= INFO_TIMEOUT
              /\ \A i \in 1..(Len(got) - 1) : ~IsSentinel(got[i])
              /\ IF got # <<>> /\ IsSentinel(got[Len(got)])
                 THEN /\ outcome' = decode_info(got[Len(got)])
                      /\ got[Len(got)][2] \in {"{}", SERIAL_INFO} =>
                             outcome' = json_loads(got[Len(got)][2])
                 ELSE /\ outcome'.exc = "TimeoutError"
                      /\ Len(got) = INFO_TIMEOUT
                      /\ next_read' = <<>>]_vars

\* info() has returned the empty object of a sentinel line sent before the
\* answer, after a log line; the answer is the next line, still unread
C32_Witness ==
    /\ call.method = "info"
    /\ lines_read = <<<<"not terminalinfo">>, <<INFO_PREFIX, "{}">>>>
    /\ outcome = Return(<<JObject(<<>>)>>)
    /\ next_read = <<<<INFO_PREFIX, SERIAL_INFO>>>>

BelowCeiling(d) ==
    d.secs < 4294967 \/ (d.secs = 4294967 /\ d.frac * 1000 < 296 * Scale)

\* C16: a serial shock, vibrate or beep whose intensity is valid is carried
\* out when its duration is not negative and its value in milliseconds is
\* below 2**32, and raises ValueError, writing nothing, when the duration
\* is negative (by however little) or its milliseconds reach 2**32
C16_SerialDurationDomain ==
    (call.transport = "serial" /\ IsOperation /\ IntensityInDomain(call))
    => IF Sign(call.duration) # -1 /\ BelowCeiling(call.duration)
       THEN outcome = Return(<<>>) /\ Len(written) = 1
       ELSE RaisedValueError /\ written = <<>>

\* the same with the negative durations above -0.001 s left out
C16_ExceptSubMillisecond ==
    (/\ call.transport = "serial" /\ IsOperation /\ IntensityInDomain(call)
     /\ ~(call.duration.neg /\ call.duration.secs = 0 /\ call.duration.frac < 10))
    => C16_SerialDurationDomain

\* ---------------------------------------------------------------------------
\* cli_utils.Range: an inclusive integer range the random mode draws from

\* a construction check that also refuses the degenerate range
Range_strict(a, b) ==
    IF b <= a
    THEN Raise("ValueError", "Min must be less than max.")
    ELSE Return([a |-> a, b |-> b])

\* Range(a, b): the dataclass is built and __post_init__ raises when b < a
Range(a, b) ==
    IF b < a
    THEN Raise("ValueError", "Min must be less than max.")
    ELSE Return([a |-> a, b |-> b])

\* Range.pick(): the values random.randint(self.a, self.b) can return
pick(self) == self.a .. self.b

\* the integers tried as range ends are -MaxInt .. MaxInt
MaxInt == 3

Ints == -MaxInt .. MaxInt

RangeCall(method, a, b) ==
    [transport |-> "cli", method |-> method, a |-> a, b |-> b]

\* Range(a, b) is constructed, or fails
RangeConstruct ==
    /\ pc = "idle"
    /\ \E a \in Ints, b \in Ints :
        /\ call' = RangeCall("Range", a, b)
        /\ outcome' = Range(a, b)
    /\ UNCHANGED <<pc, wire, response, written, handle, port_input, session, disk>>

\* pick() is called on the Range the last construction returned
RangePick ==
    /\ pc = "idle"
    /\ call # NoCall
    /\ call.method = "Range"
    /\ outcome.kind = "return"
    /\ \E v \in pick(outcome.value) :
        /\ call' = RangeCall("pick", outcome.value.a, outcome.value.b)
        /\ outcome' = Return(v)
    /\ UNCHANGED <<pc, wire, response, written, handle, port_input, session, disk>>

RangeNext == RangeConstruct \/ RangePick

RangeSpec == Init /\ [][RangeNext]_vars

\* C20: Range(a, b) is constructed exactly when a <= b and fails with
\* ValueError when b < a; every pick() of a constructed Range lies in a..b, so
\* a Range with a = b always picks that one value.
C20_RangeConstructionAndPick ==
    /\ (call # NoCall /\ call.method = "Range") =>
        /\ outcome.kind = "return" <=> call.a <= call.b
        /\ call.b < call.a => outcome.kind = "raise" /\ outcome.exc = "ValueError"
        /\ outcome.kind = "return" => outcome.value = [a |-> call.a, b |-> call.b]
    /\ (call # NoCall /\ call.method = "pick") =>
        /\ call.a <= call.b
        /\ outcome.kind = "return"
        /\ call.a <= outcome.value /\ outcome.value <= call.b
        /\ call.a = call.b => outcome.value = call.a

\* a degenerate Range was constructed and picked from
C20_Witness ==
    /\ call # NoCall
    /\ call.method = "pick"
    /\ call.a = call.b
    /\ outcome.value = call.a

\* ---------------------------------------------------------------------------
\* cli_random.RandomShocker: the random mode.  The clock counts tenths of a
\* second and stops counting at MaxClock.

\* the clock saturates at 2.5 seconds
MaxClock == 25

seconds(n) == n * 10

Min(a, b) == IF a < b THEN a ELSE b

\* time.sleep(t), t in tenths of a second
sleep(now, t) == Min(now + t, MaxClock)

\* the subclasses of httpapi.APIError
APIError ==
    {"HTTPError", "UnknownError"}
    \cup {_ERROR_MESSAGES[text] : text \in DOMAIN _ERROR_MESSAGES}

\* "except (httpapi.APIError, ValueError)" of _handle_errors and of _spam
handled(exc) == exc \in APIError \cup {"ValueError"}

\* how an operation of an HTTP shocker ends once its request is sent: as
\* _call decides from the server's response
response_ends ==
    {_call_outcome([status |-> st, text |-> t]).exc : st \in Statuses, t \in Bodies}

\* how shocker.shock / shocker.vibrate can end for the caller: "" when it
\* returns, or the class of the exception it raises.  An HTTP shocker ends as
\* the server's response decides; a serial shocker returns once the command
\* is written, and dev.write raises SerialException on a failing port.
shocker_call(shocker, operation, duration, intensity) ==
    IF shocker = "http"
    THEN LET c == IF operation = Operation.SHOCK
                  THEN HTTPShocker_shock(IntDur(duration), intensity)
                  ELSE HTTPShocker_vibrate(IntDur(duration), intensity)
         IN  IF c.raised
             THEN {c.outcome.exc}
             ELSE response_ends
    ELSE LET o == IF operation = Operation.SHOCK
                  THEN SerialShocker_shock(IntDur(duration), intensity)
                  ELSE SerialShocker_vibrate(IntDur(duration), intensity)
         IN  IF o.outcome.kind = "raise"
             THEN {o.outcome.exc}
             ELSE {"", "SerialException"}

\* as operations, with both operations enabled whatever the flags
operations_both(shock, vibrate) == <<Operation.SHOCK, Operation.VIBRATE>>

\* RandomShocker.__init__: self.operations
operations(shock, vibrate) ==
    (IF shock THEN <<Operation.SHOCK>> ELSE <<>>)
    \o (IF vibrate THEN <<Operation.VIBRATE>> ELSE <<>>)

\* as or, with the override never looked at
or_second(x, y) == y

\* "x or y" of an Optional[Range] x: <<>> is None, <<r>> is the Range r
or(x, y) == IF x = <<>> THEN y ELSE x[1]

\* as spam_decision, with a strict comparison
spam_decision_strict(draw, possibility) == draw < possibility

\* _tick: the tick is a spam tick
spam_decision(draw, possibility) == draw <= possibility

\* as spam_sleeps, without the settle margin
spam_sleeps_no_settle(duration, pause) == <<seconds(duration), seconds(pause)>>

\* _spam: the sleeps after a shock call, in tenths of a second
spam_sleeps(duration, pause) == <<seconds(duration) + 3, seconds(pause)>>

\* as operation_sleeps, without any sleep
operation_sleeps_none(duration) == <<>>

\* _shock, _vibrate: the sleeps after the call, in tenths of a second
operation_sleeps(duration) == <<seconds(duration)>>

\* the clock after the sleeps of a list
RECURSIVE sleep_all(_, _)
sleep_all(now, sleeps) ==
    IF sleeps = <<>> THEN now ELSE sleep_all(sleep(now, Head(sleeps)), Tail(sleeps))

\* as spam_continues, with one more iteration
spam_continues_inclusive(done, n) == done <= n

\* "for _ in range(n)": there is another iteration after done iterations
spam_continues(done, n) == done < n

\* as run_continues, with max_runtime never looked at
run_continues_unbounded(max_runtime, now, start_time) == TRUE

\* as run_continues, with a tick begun when the elapsed time equals max_runtime
run_continues_inclusive(max_runtime, now, start_time) ==
    IF max_runtime = <<>>
    THEN TRUE
    ELSE now - start_time <= seconds(max_runtime[1])

\* the loop condition of run()
run_continues(max_runtime, now, start_time) ==
    IF max_runtime = <<>>
    THEN TRUE
    ELSE now - start_time < seconds(max_runtime[1])

\* the arguments the random command is tried with
R(a, b) == Range(a, b).value

Pools == {<<"http">>, <<"serial">>, <<"serial", "http">>}

Possibilities == {0, 50, 100}

SpamOperations == {R(1, 2), R(3, 3)}

\* the draws of random.randint(1, 100) that are told apart
Draws == {50, 51, 100}

Configs ==
    [shockers : Pools,
     duration : {R(0, 1)},
     intensity : {R(100, 100)},
     pause : {R(0, 1)},
     init_delay : {R(0, 0)},
     spam_settings : [possibility : Possibilities,
                      operations : SpamOperations,
                      pause : {R(0, 0)},
                      duration : {R(1, 1)},
                      intensity : {<<>>, <<R(20, 20)>>}],
     max_runtime : {<<>>, <<R(1, 2)>>},
     vibrate_duration : {<<>>},
     vibrate_intensity : {<<>>},
     shock : BOOLEAN,
     vibrate : BOOLEAN]

others == <<pc, call, outcome, wire, response, written, handle, port_input, disk>>

\* the run after shocker.shock / shocker.vibrate ended with exc: the except
\* clause reports a handled exception and the code goes on to the sleep at
\* next_pc; any other exception leaves run()
after_call(r, op, shocker, duration, intensity, exc, next_pc) ==
    [r EXCEPT !.last = [operation |-> op, shocker |-> shocker,
                        duration |-> duration, intensity |-> intensity,
                        exc |-> exc],
              !.slept = <<>>,
              !.shocks = IF op = Operation.SHOCK THEN @ + 1 ELSE @,
              !.vibrates = IF op = Operation.VIBRATE THEN @ + 1 ELSE @,
              !.pc = IF exc = "" \/ handled(exc) THEN next_pc ELSE "crashed",
              !.error = IF exc = "" \/ handled(exc) THEN "" ELSE exc]

\* as random_mode_refuses, without the test of the spam possibility
random_mode_refuses_no_operation(args) == ~args.shock /\ ~args.vibrate

\* the random command: the two tests that raise typer.BadParameter
random_mode_refuses(args) ==
    \/ ~args.shock /\ ~args.vibrate
    \/ args.spam_settings.possibility # 0 /\ ~args.shock

\* the random command: it refuses its arguments, or it builds the
\* RandomShocker (start_time is the time of construction) and calls run()
random_mode(args) ==
    /\ settings' = args
    /\ run' = IF random_mode_refuses(args)
              THEN [run EXCEPT !.pc = "refused", !.error = "BadParameter"]
              ELSE [run EXCEPT !.pc = "run", !.start_time = run.now]
    /\ UNCHANGED others

RandomMode ==
    /\ run.pc = "cli"
    /\ \E args \in Configs : random_mode(args)

\* the random command with --max-runtime given, on one serial shocker
BoundedConfigs ==
    {args \in Configs :
        /\ args.max_runtime # <<>>
        /\ args.spam_settings.intensity = <<>>
        /\ args.shockers = <<"serial">>}

RandomModeBounded ==
    /\ run.pc = "cli"
    /\ \E args \in BoundedConfigs : random_mode(args)

\* as RunStart, with start_time taken once the initial delay is over
RunStart_timing_from_loop ==
    /\ run.pc = "run"
    /\ \E delay \in pick(settings.init_delay),
          max_runtime \in IF settings.max_runtime = <<>>
                          THEN {<<>>}
                          ELSE {<<m>> : m \in pick(settings.max_runtime[1])} :
        run' = [run EXCEPT !.pc = "loop",
                           !.now = sleep(@, seconds(delay)),
                           !.start_time = sleep(run.now, seconds(delay)),
                           !.max_runtime = max_runtime]
    /\ UNCHANGED <<settings, others>>

\* run() up to its loop: the initial delay is slept and max_runtime is drawn
RunStart ==
    /\ run.pc = "run"
    /\ \E delay \in pick(settings.init_delay),
          max_runtime \in IF settings.max_runtime = <<>>
                          THEN {<<>>}
                          ELSE {<<m>> : m \in pick(settings.max_runtime[1])} :
        run' = [run EXCEPT !.pc = "loop",
                           !.now = sleep(@, seconds(delay)),
                           !.max_runtime = max_runtime]
    /\ UNCHANGED <<settings, others>>

\* the loop condition holds and _tick() is entered: a spam burst begins with
\* the draw of its length, or one operation is called on one shocker
Tick ==
    /\ run.pc = "loop"
    /\ run_continues(run.max_runtime, run.now, run.start_time)
    /\ LET ops == operations(settings.shock, settings.vibrate)
       IN  \E draw \in Draws :
            LET r == [run EXCEPT !.ticks = 1, !.shocks = 0, !.vibrates = 0,
                                 !.n = 0, !.draw = draw]
            IN
            IF spam_decision(draw, settings.spam_settings.possibility)
            THEN IF \A i \in DOMAIN ops : ops[i] # Operation.SHOCK
                 THEN run' = [r EXCEPT !.spam = TRUE, !.pc = "crashed",
                                       !.error = "AssertionError"]
                 ELSE \E n \in pick(settings.spam_settings.operations) :
                        run' = [r EXCEPT !.spam = TRUE, !.n = n,
                                         !.pc = IF spam_continues(0, n)
                                                THEN "spam" ELSE "pause"]
            ELSE IF ops = <<>>
                 THEN run' = [r EXCEPT !.spam = FALSE, !.pc = "crashed",
                                       !.error = "IndexError"]
                 ELSE \E o \in DOMAIN ops, sh \in DOMAIN settings.shockers :
                      LET op == ops[o]
                          dr == IF op = Operation.SHOCK
                                THEN settings.duration
                                ELSE or(settings.vibrate_duration, settings.duration)
                          ir == IF op = Operation.SHOCK
                                THEN settings.intensity
                                ELSE or(settings.vibrate_intensity, settings.intensity)
                      IN  \E d \in pick(dr), i \in pick(ir) :
                           \E exc \in shocker_call(settings.shockers[sh], op, d, i) :
                            run' = after_call([r EXCEPT !.spam = FALSE],
                                              op, sh, d, i, exc, "sleep")
    /\ UNCHANGED <<settings, others>>

\* one iteration of the spam loop up to its sleeps: the shock call
SpamShock ==
    /\ run.pc = "spam"
    /\ \E sh \in DOMAIN settings.shockers,
          d \in pick(settings.spam_settings.duration),
          i \in pick(or(settings.spam_settings.intensity, settings.intensity)) :
        \E exc \in shocker_call(settings.shockers[sh], Operation.SHOCK, d, i) :
            run' = after_call(run, Operation.SHOCK, sh, d, i, exc, "spam_sleep")
    /\ UNCHANGED <<settings, others>>

\* the rest of the iteration: sleep(duration + 0.3), then sleep(pause.pick())
SpamSleep ==
    /\ run.pc = "spam_sleep"
    /\ \E pause \in pick(settings.spam_settings.pause) :
        run' = [run EXCEPT
                   !.now = sleep_all(@, spam_sleeps(run.last.duration, pause)),
                   !.slept = @ \o spam_sleeps(run.last.duration, pause),
                   !.pc = IF spam_continues(run.shocks, run.n)
                          THEN "spam" ELSE "pause"]
    /\ UNCHANGED <<settings, others>>

\* _shock / _vibrate after the call: sleep(duration)
OperationSleep ==
    /\ run.pc = "sleep"
    /\ run' = [run EXCEPT !.now = sleep_all(@, operation_sleeps(run.last.duration)),
                          !.slept = @ \o operation_sleeps(run.last.duration),
                          !.pc = "pause"]
    /\ UNCHANGED <<settings, others>>

\* run() after _tick(): sleep(self.pause.pick())
TickPause ==
    /\ run.pc = "pause"
    /\ \E pause \in pick(settings.pause) :
        run' = [run EXCEPT !.now = sleep(@, seconds(pause)),
                           !.slept = Append(@, seconds(pause)),
                           !.pc = "loop"]
    /\ UNCHANGED <<settings, others>>

\* the loop condition fails and run() returns
RunReturns ==
    /\ run.pc = "loop"
    /\ ~run_continues(run.max_runtime, run.now, run.start_time)
    /\ run' = [run EXCEPT !.pc = "done"]
    /\ UNCHANGED <<settings, others>>

RandomNext ==
    \/ RandomMode
    \/ RunStart
    \/ Tick
    \/ SpamShock
    \/ SpamSleep
    \/ OperationSleep
    \/ TickPause
    \/ RunReturns

RandomSpec == Init /\ [][RandomNext]_vars

\* the current tick is a spam tick whose burst has begun
InBurst == run.spam /\ run.pc \in {"spam", "spam_sleep"}

\* the current tick was a spam tick and _spam() has returned
BurstOver == run.spam /\ run.pc \in {"pause", "loop", "done"}

\* C18: a spam tick draws n from spam_settings.operations once and attempts
\* exactly n shock calls and no vibrate call, also when shock calls raise
\* APIError or ValueError; with possibility 100 and operations Range(3, 3) a
\* tick makes exactly 3 shock calls.
C18_SpamBurstOfNShocks ==
    /\ [](/\ (InBurst \/ BurstOver) =>
                /\ run.n \in pick(settings.spam_settings.operations)
                /\ run.vibrates = 0
                /\ run.shocks <= run.n
                /\ run.shocks > 0 => run.last.operation = Operation.SHOCK
          /\ BurstOver => run.shocks = run.n
          /\ (run.spam /\ run.pc = "crashed" /\ run.error # "AssertionError") =>
                /\ run.shocks <= run.n
                /\ run.last.exc \notin APIError \cup {"ValueError"}
          /\ (/\ BurstOver
              /\ settings.spam_settings.possibility = 100
              /\ settings.spam_settings.operations = [a |-> 3, b |-> 3]) =>
                run.shocks = 3)
    /\ [][InBurst => run'.n = run.n]_vars

\* a burst of 3 shocks is over whose last shock raised an APIError
C18_Witness ==
    /\ BurstOver
    /\ settings.spam_settings.possibility = 100
    /\ settings.spam_settings.operations = [a |-> 3, b |-> 3]
    /\ run.shocks = 3
    /\ run.last.operation = Operation.SHOCK
    /\ run.last.exc \in APIError

\* C19: no error raised by a shocker operation in a normal tick or a spam
\* iteration, transport or validation error, terminates RandomShocker.run():
\* it is caught and the session goes on.
C19_NoOperationErrorEndsRun ==
    ~(run.pc = "crashed" /\ run.last.exc # "" /\ run.error = run.last.exc)

\* run() is left with an exception only when a shocker raised SerialException;
\* every APIError and ValueError is followed by the sleeps of the tick
C19_OnlySerialExceptionEndsRun ==
    /\ run.pc = "crashed" =>
        /\ run.error = "SerialException"
        /\ run.last.exc = "SerialException"
        /\ settings.shockers[run.last.shocker] = "serial"
    /\ (run.pc \in {"sleep", "spam_sleep"} /\ run.last.exc # "") =>
        run.last.exc \in APIError \cup {"ValueError"}

\* ---------------------------------------------------------------------------
\* firmwareupdate.truncate.  A firmware image is a sequence of runs, each run
\* [byte, len] standing for len >= 1 equal bytes.

\* the number of bytes of an image
RECURSIVE len(_)
len(data) == IF data = <<>> THEN 0 ELSE data[1].len + len(Tail(data))

\* data[:n]
RECURSIVE slice_to(_, _)
slice_to(data, n) ==
    IF data = <<>> \/ n <= 0
    THEN <<>>
    ELSE IF data[1].len <= n
    THEN <<data[1]>> \o slice_to(Tail(data), n - data[1].len)
    ELSE <<[byte |-> data[1].byte, len |-> n]>>

\* data[n:]
RECURSIVE slice_from(_, _)
slice_from(data, n) ==
    IF data = <<>>
    THEN <<>>
    ELSE IF n <= 0
    THEN data
    ELSE IF data[1].len <= n
    THEN slice_from(Tail(data), n - data[1].len)
    ELSE <<[byte |-> data[1].byte, len |-> data[1].len - n]>> \o Tail(data)

\* set(data): the byte values that occur in data
set(data) == {data[i].byte : i \in DOMAIN data}

\* the size the device supports, 0x3FF000
size == 4190208

\* firmwareupdate.truncate
truncate(data) ==
    LET truncated == slice_to(data, size)
        rest == slice_from(data, size)
    IN  IF set(rest) # {255}
        THEN Raise("FirmwareUpdateError", "Truncated part is not all 0xff")
        ELSE Return(truncated)

\* the firmware images tried: up to MaxRuns runs of 0x00 or 0xff bytes, of
\* lengths around the truncation point
MaxRuns == 3

Runs == [byte : {0, 255}, len : {1, size - 1, size}]

RECURSIVE SeqsUpTo(_, _)
SeqsUpTo(S, n) ==
    IF n = 0
    THEN {<<>>}
    ELSE LET shorter == SeqsUpTo(S, n - 1)
         IN  shorter \cup {Append(q, x) : q \in shorter, x \in S}

Firmwares == SeqsUpTo(Runs, MaxRuns)

\* the flash command truncates the downloaded image
Truncate ==
    /\ pc = "idle"
    /\ \E data \in Firmwares :
        /\ call' = [transport |-> "cli", method |-> "truncate", data |-> data]
        /\ outcome' = truncate(data)
    /\ UNCHANGED <<pc, wire, response, written, handle, port_input, session, disk>>

FirmwareNext == Truncate

FirmwareSpec == Init /\ [][FirmwareNext]_vars

\* the byte at offset i of an image, i < len(data)
RECURSIVE byte_at(_, _)
byte_at(data, i) ==
    IF i < data[1].len THEN data[1].byte ELSE byte_at(Tail(data), i - data[1].len)

\* the offset at which run k of an image begins
RECURSIVE offset(_, _)
offset(data, k) == IF k = 1 THEN 0 ELSE offset(data, k - 1) + data[k - 1].len

\* every byte of data at offset size or beyond is 0xff
AllFFAfter(data) ==
    \A k \in DOMAIN data :
        offset(data, k) + data[k].len > size => data[k].byte = 255

\* r holds the first min(len(data), size) bytes of data
IsPrefix(r, data) ==
    /\ len(r) = Min(len(data), size)
    /\ \A i \in {0, 1, size - 2, size - 1} :
        i < len(r) => byte_at(r, i) = byte_at(data, i)

IsTruncate == call # NoCall /\ call.method = "truncate"

\* C21: truncate(data) returns the first 0x3FF000 bytes of data whenever
\* every byte after the truncation point is 0xff, also when there is no byte
\* after that point, and raises FirmwareUpdateError only when some byte after
\* the truncation point is not 0xff.
C21_TruncateIffRestAllFF ==
    IsTruncate =>
        /\ AllFFAfter(call.data) =>
            outcome.kind = "return" /\ IsPrefix(outcome.value, call.data)
        /\ outcome.kind = "raise" =>
            outcome.exc = "FirmwareUpdateError" /\ ~AllFFAfter(call.data)

\* the claim holds for every image that has bytes after the truncation point;
\* an image of at most 0x3FF000 bytes is always refused
C21_ExceptEmptyRest ==
    IsTruncate =>
        /\ len(call.data) > size => C21_TruncateIffRestAllFF
        /\ len(call.data) <= size =>
            outcome.kind = "raise" /\ outcome.exc = "FirmwareUpdateError"

\* ---------------------------------------------------------------------------
\* The command line tool's saved configuration: cli_utils.Config, the "code"
\* commands and "init".  A share code is the sequence of its characters.

HexDigits ==
    {"0", "1", "2", "3", "4", "5", "6", "7", "8", "9", "A", "B", "C", "D", "E", "F"}

\* SHARE_CODE_REGEX.match with r"^[0-9A-F]{11}$": eleven upper case hex
\* digits; "$" also matches before a newline that ends the string
SHARE_CODE_REGEX_match(code) ==
    /\ Len(code) \in {11, 12}
    /\ \A i \in 1 .. 11 : code[i] \in HexDigits
    /\ Len(code) = 12 => code[12] = "\n"

\* Config.__init__
Config_init == [username |-> <<>>, api_key |-> <<>>, shockers |-> <<>>]

\* Config.load: a missing file leaves the fields as constructed
Config_load(file) ==
    IF file = <<>>
    THEN Config_init
    ELSE [username |-> file[1].api.username,
          api_key |-> file[1].api.key,
          shockers |-> file[1].shockers]

\* Config.save: the data written to the file
Config_save(config) ==
    <<[api |-> [username |-> config.username, key |-> config.api_key],
       shockers |-> config.shockers]>>

Exit(code) == [Raise("Exit", "") EXCEPT !.status = code]

Abort == Raise("Abort", "")

\* cli.init_pishock_api: the API handle of the context (<<>> is None), or Exit
\* when neither the options nor config.json hold credentials
init_pishock_api(username, api_key, is_init, config) ==
    IF username = <<>> \/ api_key = <<>>
    THEN IF is_init
         THEN [outcome |-> NoOutcome, pishock_api |-> <<>>]
         ELSE IF config.username = <<>> \/ config.api_key = <<>>
         THEN [outcome |-> Exit(1), pishock_api |-> <<>>]
         ELSE [outcome |-> NoOutcome,
               pishock_api |-> <<[username |-> config.username[1],
                                  api_key |-> config.api_key[1]]>>]
    ELSE [outcome |-> NoOutcome,
          pishock_api |-> <<[username |-> username[1], api_key |-> api_key[1]]>>]

\* d without the key k
del(d, k) == [n \in DOMAIN d \ {k} |-> d[n]]

\* d with d[k] = v
setitem(d, k, v) == (k :> v) @@ del(d, k)

\* as add, without the check of the share code
add_unchecked(config, pishock_api, name, share_code, force, ok, resp) ==
    IF name \in DOMAIN config.shockers /\ ~force /\ ~ok
    THEN [outcome |-> Abort, config |-> config, saved |-> FALSE]
    ELSE IF pishock_api = <<>>
    THEN [outcome |-> Exit(1), config |-> config, saved |-> FALSE]
    ELSE LET i == info_outcome(resp)
         IN  IF i.kind = "raise"
             THEN [outcome |-> IF i.exc \in APIError THEN Exit(1) ELSE i,
                   config |-> config, saved |-> FALSE]
             ELSE [outcome |-> Return(<<>>),
                   config |-> [config EXCEPT !.shockers =
                                  setitem(@, name,
                                          [sharecode |-> share_code,
                                           shocker_id |-> <<i.value[1].shocker_id>>])],
                   saved |-> TRUE]

\* cli_code.add: the command's outcome, the Config object it leaves and
\* whether config.save() was called.  ok is the answer to the overwrite
\* question, resp the server's response to the info lookup.
add(config, pishock_api, name, share_code, force, ok, resp) ==
    IF ~SHARE_CODE_REGEX_match(share_code)
    THEN [outcome |-> Exit(1), config |-> config, saved |-> FALSE]
    ELSE add_unchecked(config, pishock_api, name, share_code, force, ok, resp)

\* as rename, overwriting without the question
rename_forced(config, name, new_name, force, ok) ==
    IF name \notin DOMAIN config.shockers \/ name = new_name
    THEN [outcome |-> Exit(1), config |-> config, saved |-> FALSE]
    ELSE [outcome |-> Return(<<>>),
          config |-> [config EXCEPT !.shockers =
                         del(setitem(@, new_name, @[name]), name)],
          saved |-> TRUE]

\* cli_code.rename
rename(config, name, new_name, force, ok) ==
    IF name \notin DOMAIN config.shockers
    THEN [outcome |-> Exit(1), config |-> config, saved |-> FALSE]
    ELSE IF name = new_name
    THEN [outcome |-> Exit(1), config |-> config, saved |-> FALSE]
    ELSE IF new_name \in DOMAIN config.shockers /\ ~force /\ ~ok
    THEN [outcome |-> Exit(1), config |-> config, saved |-> FALSE]
    ELSE [outcome |-> Return(<<>>),
          config |-> [config EXCEPT !.shockers =
                         del(setitem(@, new_name, @[name]), name)],
          saved |-> TRUE]

\* as init, saving before the credentials are verified
init_unverified(config, pishock_api, force, yes, typed, resp) ==
    IF (config.username # <<>> \/ config.api_key # <<>>) /\ ~force /\ ~yes
    THEN [outcome |-> Abort, config |-> config, saved |-> FALSE]
    ELSE LET creds == IF pishock_api = <<>> THEN typed ELSE pishock_api[1]
         IN  [outcome |-> Return(<<>>),
              config |-> [config EXCEPT !.username = <<creds.username>>,
                                        !.api_key = <<creds.api_key>>],
              saved |-> TRUE]

\* cli.init.  yes is the answer to the overwrite question, typed the
\* credentials entered at the prompts, resp the server's response to
\* VerifyApiCredentials.
init(config, pishock_api, force, yes, typed, resp) ==
    IF (config.username # <<>> \/ config.api_key # <<>>) /\ ~force /\ ~yes
    THEN [outcome |-> Abort, config |-> config, saved |-> FALSE]
    ELSE LET creds == IF pishock_api = <<>> THEN typed ELSE pishock_api[1]
             valid == verify_credentials_outcome(resp)
         IN  IF valid.kind = "raise"
             THEN [outcome |-> valid, config |-> config, saved |-> FALSE]
             ELSE IF ~valid.value[1]
             THEN [outcome |-> Exit(1), config |-> config, saved |-> FALSE]
             ELSE [outcome |-> Return(<<>>),
                   config |-> [config EXCEPT !.username = <<creds.username>>,
                                             !.api_key = <<creds.api_key>>],
                   saved |-> TRUE]

\* the inputs the commands are tried with
Names == {"test1", "test2", "test3"}

ShareCodes ==
    {<<"6", "2", "1", "4", "2", "0", "6", "9", "A", "A", "4">>,
     <<"6", "2", "1", "4", "2", "0", "6", "9", "A", "B", "X">>,
     <<"6", "2", "1", "4", "2", "0", "6", "9", "A", "A">>,
     <<"6", "2", "1", "4", "2", "0", "6", "9", "A", "B", "1", "\n">>}

\* the answers to the prompts of init, stripped
Credentials == {[username |-> "OTHER-USERNAME", api_key |-> "OTHER-APIKEY"]}

\* the --username / --api-key options or environment variables: both or none
Options ==
    {[username |-> <<>>, api_key |-> <<>>],
     [username |-> <<USERNAME>>, api_key |-> <<API_KEY>>]}

InfoResponses ==
    {[status |-> 200, text |-> INFO_BODY], [status |-> 200, text |-> "{}"],
     [status |-> 404, text |-> ""]}

VerifyResponses ==
    {[status |-> 200, text |-> ""], [status |-> 403, text |-> ""],
     [status |-> 500, text |-> ""]}

\* one run of the tool: the callback has loaded config.json and built the
\* context, the command r has run on it; config.json is rewritten when the
\* command called config.save()
Command(c, context, r) ==
    /\ call' = c
    /\ outcome' = IF context.outcome.kind = "raise" THEN context.outcome ELSE r.outcome
    /\ config_json' = IF context.outcome.kind # "raise" /\ r.saved
                      THEN Config_save(r.config)
                      ELSE config_json
    /\ UNCHANGED <<pc, wire, response, written, handle, port_input, session>>

\* "code add NAME SHARE_CODE [--force]"
CodeAdd ==
    /\ pc = "idle"
    /\ \E o \in Options, name \in Names, share_code \in ShareCodes,
          force \in BOOLEAN, ok \in BOOLEAN, resp \in InfoResponses :
        LET config == Config_load(config_json)
            context == init_pishock_api(o.username, o.api_key, FALSE, config)
        IN  Command([transport |-> "cli", method |-> "code add", name |-> name,
                     arg |-> share_code, force |-> force, ok |-> ok,
                     resp |-> resp, options |-> o],
                    context,
                    add(config, context.pishock_api, name, share_code, force, ok, resp))

\* "code rename NAME NEW_NAME [--force]"
CodeRename ==
    /\ pc = "idle"
    /\ \E o \in Options, name \in Names, new_name \in Names,
          force \in BOOLEAN, ok \in BOOLEAN :
        LET config == Config_load(config_json)
            context == init_pishock_api(o.username, o.api_key, FALSE, config)
        IN  Command([transport |-> "cli", method |-> "code rename", name |-> name,
                     arg |-> new_name, force |-> force, ok |-> ok,
                     resp |-> [status |-> 0, text |-> ""], options |-> o],
                    context,
                    rename(config, name, new_name, force, ok))

\* "init [--force]"
InitCommand ==
    /\ pc = "idle"
    /\ \E o \in Options, force \in BOOLEAN, yes \in BOOLEAN,
          typed \in Credentials, resp \in VerifyResponses :
        LET config == Config_load(config_json)
            context == init_pishock_api(o.username, o.api_key, TRUE, config)
        IN  Command([transport |-> "cli", method |-> "init", name |-> "",
                     arg |-> typed, force |-> force, ok |-> yes,
                     resp |-> resp, options |-> o],
                    context,
                    init(config, context.pishock_api, force, yes, typed, resp))

ConfigNext == CodeAdd \/ CodeRename \/ InitCommand

ConfigSpec == Init /\ [][ConfigNext]_vars

\* the shockers saved in a config.json
saved_shockers(file) == IF file = <<>> THEN <<>> ELSE file[1].shockers

\* the credentials saved in a config.json, <<>> for none
saved_api(file) ==
    IF file = <<>> \/ file[1].api.username = <<>>
    THEN <<>>
    ELSE <<[username |-> file[1].api.username[1], api_key |-> file[1].api.key[1]]>>

\* after differs from before at most in the entries of the names in changed
SameExcept(before, after, changed) ==
    /\ DOMAIN after \ changed = DOMAIN before \ changed
    /\ \A n \in DOMAIN before \ changed : after[n] = before[n]

\* the step is a run of the command that could reach the API: credentials
\* were given as options or are saved
HasCredentials == call'.options.username # <<>> \/ saved_api(config_json) # <<>>

C23_CodeRenameFrame ==
    [][call'.method = "code rename" =>
        LET before == saved_shockers(config_json)
            after == saved_shockers(config_json')
            name == call'.name
            new_name == call'.arg
            refused ==
                \/ name \notin DOMAIN before
                \/ name = new_name
                \/ new_name \in DOMAIN before /\ ~call'.force /\ ~call'.ok
        IN  /\ refused => outcome'.kind = "raise" /\ config_json' = config_json
            /\ (~refused /\ HasCredentials) =>
                /\ outcome'.kind = "return"
                /\ name \notin DOMAIN after
                /\ new_name \in DOMAIN after
                /\ after[new_name] = before[name]
                /\ SameExcept(before, after, {name, new_name})
                /\ saved_api(config_json') = saved_api(config_json)
            /\ outcome'.kind # "return" => config_json' = config_json
    ]_vars

\* an entry was moved onto another saved name after confirmation, next to a
\* third saved entry
C23_Witness ==
    /\ call # NoCall
    /\ call.method = "code rename"
    /\ outcome.kind = "return"
    /\ call.ok /\ ~call.force
    /\ call.name = "test1" /\ call.arg = "test2"
    /\ DOMAIN saved_shockers(config_json) = {"test2", "test3"}
    /\ saved_shockers(config_json)["test2"] # saved_shockers(config_json)["test3"]

\* C24: "init" writes credentials to config.json only after
\* verify_credentials reported them valid and, when credentials are saved
\* already, only if overwriting is forced or confirmed; in every other case
\* config.json is left as it was, a missing file stays missing.
C24_InitWritesOnlyVerified ==
    [][call'.method = "init" =>
        LET allowed == saved_api(config_json) = <<>> \/ call'.force \/ call'.ok
            valid == call'.resp.status = 200
            creds == IF call'.options.username = <<>>
                     THEN call'.arg
                     ELSE [username |-> call'.options.username[1],
                           api_key |-> call'.options.api_key[1]]
        IN  /\ config_json' # config_json => allowed /\ valid
            /\ (allowed /\ valid) =>
                /\ outcome'.kind = "return"
                /\ saved_api(config_json') = <<creds>>
                /\ saved_shockers(config_json') = saved_shockers(config_json)
            /\ ~(allowed /\ valid) =>
                outcome'.kind = "raise" /\ config_json' = config_json
    ]_vars

\* saved credentials were overwritten by verified ones after confirmation,
\* with shockers saved
C24_Witness ==
    /\ call # NoCall
    /\ call.method = "init"
    /\ outcome.kind = "return"
    /\ call.ok /\ ~call.force
    /\ call.options.username = <<>>
    /\ saved_api(config_json) = <<call.arg>>
    /\ DOMAIN saved_shockers(config_json) # {}

\* ---------------------------------------------------------------------------
\* Properties of the random mode

\* a tick has begun in this run
Ticked == run.ticks = 1

\* the calls made in the current tick
TickCalls == run.shocks + run.vibrates

\* the step makes a shocker call
CallStep ==
    IF run.pc = "loop"
    THEN run'.pc \notin {"loop", "done"} /\ TickCalls' > 0
    ELSE TickCalls' > TickCalls

RECURSIVE Sum(_)
Sum(q) == IF q = <<>> THEN 0 ELSE Head(q) + Sum(Tail(q))

\* C25: a tick enters the spam branch iff the integer drawn from 1..100 is
\* <= spam_settings.possibility: with possibility 0 no tick spams, with
\* possibility 100 every tick spams, and a tick is either a spam burst or one
\* normal action, never both.
C25_SpamIffDrawAtMostPossibility ==
    Ticked =>
        /\ run.draw \in 1 .. 100
        /\ run.spam <=> run.draw <= settings.spam_settings.possibility
        /\ settings.spam_settings.possibility = 0 => ~run.spam
        /\ settings.spam_settings.possibility = 100 => run.spam
        /\ run.spam => run.vibrates = 0 /\ run.n >= 1 /\ run.pc # "sleep"
        /\ ~run.spam =>
            /\ run.n = 0
            /\ TickCalls <= 1
            /\ run.pc \notin {"spam", "spam_sleep"}

\* with possibility 50 a draw of 50 began a burst
C25_Witness ==
    /\ Ticked
    /\ settings.spam_settings.possibility = 50
    /\ run.draw = 50
    /\ run.spam
    /\ run.pc = "spam_sleep"

\* C26: in a spam burst each shock call is followed by a sleep of
\* duration + 0.3 s and a sleep of spam pause.pick() before the next shock
\* call, whether or not the call failed.
C26_BothSleepsBetweenSpamShocks ==
    [][(CallStep /\ run.spam /\ run'.spam /\ run.shocks >= 1) =>
        /\ Len(run.slept) = 2
        /\ run.slept[1] = 10 * run.last.duration + 3
        /\ \E pause \in settings.spam_settings.pause.a .. settings.spam_settings.pause.b :
            run.slept[2] = 10 * pause
    ]_vars

\* the second shock of a burst was called after the first one failed
C26_Witness ==
    /\ run.spam
    /\ run.shocks = 2
    /\ run.pc = "spam_sleep"
    /\ run.last.exc \in APIError

\* C27: after every shock or vibrate call with duration d the engine sleeps
\* at least d seconds before the next call to any shocker, also when the call
\* raised a caught error.
C27_SleepsDurationBeforeNextCall ==
    [][(CallStep /\ run.last.operation # -1) =>
        Sum(run.slept) >= 10 * run.last.duration]_vars

\* a normal tick made a call that failed, at least 1 s into the session
C27_Witness ==
    /\ ~run.spam
    /\ run.pc = "sleep"
    /\ run.now >= 10
    /\ run.last.exc \in APIError

\* C28: max_runtime is drawn once per run(), before the first tick; a tick
\* begins only while the time since start_time is strictly below the drawn
\* value; run() returns only between ticks, and never when max_runtime is
\* unset.
C28_MaxRuntimeDrawnOnce ==
    /\ [](/\ run.pc \notin {"cli", "refused", "run"} =>
                IF settings.max_runtime = <<>>
                THEN run.max_runtime = <<>>
                ELSE /\ run.max_runtime # <<>>
                     /\ run.max_runtime[1] \in
                            settings.max_runtime[1].a .. settings.max_runtime[1].b
          /\ run.pc = "done" => run.max_runtime # <<>>)
    /\ [][/\ run.pc \notin {"cli", "run"} => run'.max_runtime = run.max_runtime
          /\ (run.pc = "loop" /\ run'.pc \notin {"loop", "done"}) =>
                \/ run.max_runtime = <<>>
                \/ run.now - run.start_time < 10 * run.max_runtime[1]
          /\ (run.pc # "done" /\ run'.pc = "done") =>
                /\ run.pc = "loop"
                /\ run.now - run.start_time >= 10 * run.max_runtime[1]
         ]_vars

\* run() returned once the drawn max_runtime of 2 s had elapsed
C28_Witness ==
    /\ run.pc = "done"
    /\ run.max_runtime = <<2>>
    /\ run.now >= 20
    /\ Ticked

\* C30: a tick that is no spam tick makes exactly one call, shock or vibrate,
\* on one shocker of the pool, and the operation is an enabled one: with shock
\* disabled no shock call is made in the session, with vibrate disabled no
\* vibrate call, and no beep is ever issued.
C30_OneEnabledOperationPerTick ==
    /\ (Ticked /\ ~run.spam /\ run.pc \in {"sleep", "pause", "loop", "done"}) =>
        TickCalls = 1
    /\ (Ticked /\ ~run.spam /\ run.pc = "crashed") => TickCalls = 1
    /\ run.last.operation \in {-1, Operation.SHOCK, Operation.VIBRATE}
    /\ run.last.operation # -1 => run.last.shocker \in DOMAIN settings.shockers
    /\ run.pc # "cli" =>
        /\ ~settings.shock => run.shocks = 0 /\ run.last.operation # Operation.SHOCK
        /\ ~settings.vibrate =>
            run.vibrates = 0 /\ run.last.operation # Operation.VIBRATE

\* with shock disabled a tick vibrated the second shocker of its pool
C30_Witness ==
    /\ Ticked
    /\ ~settings.shock
    /\ run.pc = "sleep"
    /\ run.vibrates = 1
    /\ run.last.shocker = 2

RandomBoundedNext ==
    \/ RandomModeBounded
    \/ RunStart
    \/ Tick
    \/ SpamShock
    \/ SpamSleep
    \/ OperationSleep
    \/ TickPause
    \/ RunReturns

\* a step of the random mode on which the clock moves on
ClockAdvances == RandomBoundedNext /\ run'.now > run.now

\* the random mode with every call and sleep returning (a step that can be
\* taken is taken) and with a clock that moves on: the sleeps do not stay at
\* zero seconds for ever
RandomLiveSpec ==
    /\ Init
    /\ [][RandomBoundedNext]_vars
    /\ WF_vars(RandomBoundedNext)
    /\ SF_vars(ClockAdvances)

\* C29: with max_runtime set, run() comes to an end; once the drawn
\* max_runtime has elapsed, the tick in progress and its pause complete and no
\* further tick begins.
C29_RunEnds ==
    /\ (run.pc = "loop" /\ run.max_runtime # <<>>) ~> (run.pc \in {"done", "crashed"})
    /\ [][(/\ run.pc = "loop"
           /\ run.max_runtime # <<>>
           /\ run.now - run.start_time >= 10 * run.max_runtime[1])
          => run'.pc = "done"]_vars

\* run() returned after a burst of 3 shocks that outlasted a max_runtime of 1 s
C29_Witness ==
    /\ run.pc = "done"
    /\ run.max_runtime = <<1>>
    /\ run.spam
    /\ run.shocks = 3

\* ---------------------------------------------------------------------------
\* The random mode with the vibrate and spam overrides given or left out

\* the random command with --vibrate-duration, --vibrate-intensity and
\* --spam-intensity each given or left out, for a session of 2 s; the Ranges
\* are pairwise disjoint where an override replaces a main Range
OverrideConfigs ==
    [shockers : {<<"serial">>, <<"http">>},
     duration : {R(0, 1)},
     intensity : {R(99, 100)},
     pause : {R(1, 1)},
     init_delay : {R(0, 0)},
     spam_settings : [possibility : {0, 50},
                      operations : {R(1, 2)},
                      pause : {R(0, 0)},
                      duration : {R(1, 1)},
                      intensity : {<<>>, <<R(20, 21)>>}],
     max_runtime : {<<R(2, 2)>>},
     vibrate_duration : {<<>>, <<R(2, 2)>>},
     vibrate_intensity : {<<>>, <<R(50, 51)>>},
     shock : BOOLEAN,
     vibrate : BOOLEAN]

RandomModeOverrides ==
    /\ run.pc = "cli"
    /\ \E args \in OverrideConfigs : random_mode(args)

OverrideNext ==
    \/ RandomModeOverrides
    \/ RunStart
    \/ Tick
    \/ SpamShock
    \/ SpamSleep
    \/ OperationSleep
    \/ TickPause
    \/ RunReturns

OverrideSpec == Init /\ [][OverrideNext]_vars

\* the Range a call of the current tick draws its duration from
DurationRange(operation) ==
    IF run.spam
    THEN settings.spam_settings.duration
    ELSE IF operation = Operation.VIBRATE /\ settings.vibrate_duration # <<>>
         THEN settings.vibrate_duration[1]
         ELSE settings.duration

\* the Range a call of the current tick draws its intensity from
IntensityRange(operation) ==
    IF run.spam
    THEN IF settings.spam_settings.intensity # <<>>
         THEN settings.spam_settings.intensity[1]
         ELSE settings.intensity
    ELSE IF operation = Operation.VIBRATE /\ settings.vibrate_intensity # <<>>
         THEN settings.vibrate_intensity[1]
         ELSE settings.intensity

\* C31: a vibrate action draws its duration from vibrate_duration when
\* configured and from the shock duration Range otherwise, its intensity from
\* vibrate_intensity or the shock intensity Range; a spam shock draws its
\* intensity from spam_settings.intensity when configured and from the main
\* intensity Range otherwise; every duration and intensity passed to a
\* shocker lies within the Range it was drawn from.
C31_OverridesAndFallbacks ==
    (run.last.operation # -1 /\ TickCalls > 0) =>
        /\ run.last.duration \in
                DurationRange(run.last.operation).a .. DurationRange(run.last.operation).b
        /\ run.last.intensity \in
                IntensityRange(run.last.operation).a .. IntensityRange(run.last.operation).b
        /\ (run.spam \/ run.last.operation = Operation.SHOCK) =>
                run.last.operation = Operation.SHOCK

\* a vibrate call took its duration from vibrate_duration and, with no
\* vibrate_intensity given, its intensity from the main intensity Range
C31_Witness ==
    /\ ~run.spam
    /\ run.pc = "sleep"
    /\ run.last.operation = Operation.VIBRATE
    /\ settings.vibrate_duration = <<[a |-> 2, b |-> 2]>>
    /\ settings.vibrate_intensity = <<>>
    /\ run.last.duration = 2
    /\ run.last.intensity = 99

\* ---------------------------------------------------------------------------
\* The random mode with an initial delay

\* the random command on one serial shocker with --init-delay given or left
\* at its default, and --max-runtime given or left out
DelayConfigs ==
    [shockers : {<<"serial">>},
     duration : {R(0, 1)},
     intensity : {R(100, 100)},
     pause : {R(0, 1)},
     init_delay : {R(0, 0), R(1, 2)},
     spam_settings : [possibility : {0, 50},
                      operations : {R(1, 2)},
                      pause : {R(0, 0)},
                      duration : {R(1, 1)},
                      intensity : {<<>>}],
     max_runtime : {<<>>, <<R(1, 2)>>},
     vibrate_duration : {<<>>},
     vibrate_intensity : {<<>>},
     shock : BOOLEAN,
     vibrate : BOOLEAN]

RandomModeDelay ==
    /\ run.pc = "cli"
    /\ \E args \in DelayConfigs : random_mode(args)

DelayNext ==
    \/ RandomModeDelay
    \/ RunStart
    \/ Tick
    \/ SpamShock
    \/ SpamSleep
    \/ OperationSleep
    \/ TickPause
    \/ RunReturns

DelaySpec == Init /\ [][DelayNext]_vars

\* no operation has been issued in this run
NoOperationYet == run.ticks = 0 /\ run.last.operation = -1 /\ TickCalls = 0

\* C34: start_time is the time at which the RandomShocker is constructed and
\* the initial delay counts toward max_runtime: the delay is slept once,
\* before any operation is issued, and when the drawn delay is at least the
\* drawn max_runtime, run() returns without issuing any operation.
C34_InitialDelayCountsTowardMaxRuntime ==
    /\ [](/\ run.pc \in {"cli", "refused", "run"} => NoOperationYet
          /\ (/\ run.pc \notin {"cli", "refused", "run"}
              /\ NoOperationYet
              /\ run.max_runtime # <<>>
              /\ run.now - run.start_time >= 10 * run.max_runtime[1]) =>
                run.pc \in {"loop", "done"})
    /\ [][/\ (run.pc = "cli" /\ run'.pc = "run") => run'.start_time = run.now
          /\ run.pc # "cli" => run'.start_time = run.start_time
          /\ run'.pc = "run" => run.pc \in {"cli", "run"}
          /\ run.pc = "run" =>
                /\ run'.pc = "loop"
                /\ NoOperationYet'
                /\ \E delay \in settings.init_delay.a .. settings.init_delay.b :
                        /\ run'.now = run.now + 10 * delay
                        /\ run'.now - run'.start_time = 10 * delay
          /\ (/\ run.pc = "loop"
              /\ NoOperationYet
              /\ run.max_runtime # <<>>
              /\ run.now - run.start_time >= 10 * run.max_runtime[1]) =>
                run'.pc = "done" /\ NoOperationYet'
         ]_vars

\* after an initial delay of 2 s, with a max_runtime of 1 s drawn, run() has
\* returned without a tick
C34_Witness ==
    /\ run.pc = "done"
    /\ NoOperationYet
    /\ run.max_runtime = <<1>>
    /\ run.now - run.start_time = 20
    /\ settings.init_delay = [a |-> 1, b |-> 2]

\* C35: the random command refuses to start when both shock and vibrate are
\* disabled and when the spam possibility is non-zero with shock disabled;
\* every RandomShocker it starts has an enabled operation and reaches the spam
\* branch only with SHOCK enabled, so the assertion of _spam and the random
\* choice over the operations never fail.
C35_StartedRunsHaveOperations ==
    /\ run.pc # "cli" =>
        (run.pc = "refused" <=>
            \/ ~settings.shock /\ ~settings.vibrate
            \/ settings.spam_settings.possibility # 0 /\ ~settings.shock)
    /\ run.pc = "refused" => run.error = "BadParameter" /\ NoOperationYet
    /\ run.pc \notin {"cli", "refused"} =>
        /\ settings.shock \/ settings.vibrate
        /\ Len(operations(settings.shock, settings.vibrate)) >= 1
        /\ settings.spam_settings.possibility # 0 => settings.shock
        /\ (Ticked /\ run.spam) => settings.shock
    /\ run.error \notin {"AssertionError", "IndexError"}

\* the command has refused a spam possibility of 50 given with --no-shock
\* and --vibrate
C35_Witness ==
    /\ run.pc = "refused"
    /\ run.error = "BadParameter"
    /\ settings.vibrate
    /\ ~settings.shock
    /\ settings.spam_settings.possibility = 50

====
